---- MODULE Spec2Model ----
(***************************************************************************)
(* Verification model of wm (working memory for AI coding assistants).     *)
(*                                                                         *)
(* Part A  incremental extraction: extract.rs + transcript/reader.rs       *)
(*         (checkpoint = time captured before the transcript is read)      *)
(***************************************************************************)
EXTENDS Integers, Sequences, FiniteSets, TLC

\* ------------------------------------------------------------------ bounds
MaxAppends == 2      \* records appended to the transcript
MaxRuns == 2         \* extract runs started

\* --------------------------------------------------------------- constants
CARRYOVER_WINDOW_MINUTES == 5

\* Option<T>: None is the empty sequence, Some(x) the one-element sequence.
None == << >>
Some(x) == << x >>
IsSome(o) == Len(o) = 1
Unwrap(o) == o[1]

\* ------------------------------------------------ the marker protocol
\* llm.rs parse_marker_response and strip_markdown_prefix.  A text is a
\* sequence of tokens: " " and "\n" are whitespace, "#", ">", "*" the markdown
\* characters, a marker token is a marker name followed by ':' in some letter
\* case, the others are words.
Whitespace == {" ", "\n"}
MarkdownChars == {"#", ">", "*"}
MarkerNames == {"HAS_KNOWLEDGE", "HAS_RELEVANT"}

\* format!("{}:", marker_name)
MarkerPrefix(name) == IF name = "HAS_KNOWLEDGE" THEN "HAS_KNOWLEDGE:" ELSE "HAS_RELEVANT:"

\* str::to_uppercase, token by token
ToUpper(t) ==
    CASE t = "yes" -> "YES"
      [] t = "True" -> "TRUE"
      [] t = "has_knowledge:" -> "HAS_KNOWLEDGE:"
      [] OTHER -> t
ToUpperSeq(s) == [k \in 1..Len(s) |-> ToUpper(s[k])]

RECURSIVE TrimStart(_)
TrimStart(s) ==
    IF s # << >> /\ Head(s) \in Whitespace THEN TrimStart(Tail(s)) ELSE s
RECURSIVE TrimEnd(_)
TrimEnd(s) ==
    IF s # << >> /\ s[Len(s)] \in Whitespace THEN TrimEnd(SubSeq(s, 1, Len(s) - 1)) ELSE s
\* str::trim
Trim(s) == TrimEnd(TrimStart(s))

\* str::trim_start_matches(['#', '>', '*'])
RECURSIVE TrimStartMatches(_)
TrimStartMatches(s) ==
    IF s # << >> /\ Head(s) \in MarkdownChars THEN TrimStartMatches(Tail(s)) ELSE s

\* llm.rs 151-153
strip_markdown_prefix(line) == Trim(TrimStartMatches(Trim(line)))

\* a prefix test that ignores letter case
StripPrefixIgnoreCase(s, prefix) ==
    IF s # << >> /\ ToUpper(Head(s)) = prefix THEN Some(Tail(s)) ELSE None

\* str::strip_prefix(&marker_prefix): exact comparison
StripPrefix(s, prefix) ==
    IF s # << >> /\ Head(s) = prefix THEN Some(Tail(s)) ELSE None

\* str::lines: split at "\n", a final empty piece is not a line
RECURSIVE SplitLines(_, _)
SplitLines(text, cur) ==
    IF text = << >> THEN (IF cur = << >> THEN << >> ELSE << cur >>)
    ELSE IF Head(text) = "\n" THEN << cur >> \o SplitLines(Tail(text), << >>)
    ELSE SplitLines(Tail(text), Append(cur, Head(text)))
Lines(text) == SplitLines(text, << >>)

\* [&str]::join("\n")
RECURSIVE Join(_)
Join(ls) ==
    IF ls = << >> THEN << >>
    ELSE IF Len(ls) = 1 THEN ls[1]
    ELSE ls[1] \o << "\n" >> \o Join(Tail(ls))

MarkerResponse(pos, content) == [is_positive |-> pos, content |-> content]

\* a scan that passes over a marker line whose value is not affirmative
RECURSIVE ScanSkippingNegative(_, _, _)
ScanSkippingNegative(lines, i, prefix) ==
    IF i > Len(lines) THEN MarkerResponse(FALSE, << >>)
    ELSE LET value == StripPrefix(strip_markdown_prefix(lines[i]), prefix)
         IN  IF IsSome(value) /\ ToUpperSeq(Trim(Unwrap(value))) \in {<< "YES" >>, << "TRUE" >>}
             THEN MarkerResponse(TRUE, Trim(Join(SubSeq(lines, i + 1, Len(lines)))))
             ELSE ScanSkippingNegative(lines, i + 1, prefix)

\* llm.rs 118-135: the loop over the lines, from line i
RECURSIVE Scan(_, _, _)
Scan(lines, i, prefix) ==
    IF i > Len(lines) THEN MarkerResponse(FALSE, << >>)
    ELSE LET value == StripPrefix(strip_markdown_prefix(lines[i]), prefix)
         IN  IF IsSome(value)
             THEN IF ToUpperSeq(Trim(Unwrap(value))) \in {<< "YES" >>, << "TRUE" >>}
                  THEN MarkerResponse(TRUE, Trim(Join(SubSeq(lines, i + 1, Len(lines)))))
                  ELSE MarkerResponse(FALSE, << >>)
             ELSE Scan(lines, i + 1, prefix)

\* llm.rs 114-147
parse_marker_response(text, marker_name) == Scan(Lines(text), 1, MarkerPrefix(marker_name))

Procs == {"p1", "p2"}
SessionIds == {"s1", "s2"}
\* the session_id argument of a run: Some(sid) or None (no filter)
RunSessions == {Some(s) : s \in SessionIds} \cup {None}
\* the runs of one session's sequence: session s1, or no session filter
SequenceSessions == {Some("s1"), None}
\* the process slot that runs them, one after the other
SequenceProcs == {"p1"}

\* one state directory for every session, whatever its id
session_state_dir_shared(sid) == << ".wm" >>

\* extract.rs 110-115: .wm/sessions/<id>, or .wm itself without a session id
session_state_dir(sid) ==
    IF IsSome(sid) THEN << ".wm", "sessions", Unwrap(sid) >> ELSE << ".wm" >>

\* state_dir.join("extraction_state.json")
extraction_state_path(sid) == Append(session_state_dir(sid), "extraction_state.json")
CheckpointFiles == {extraction_state_path(sid) : sid \in RunSessions}

\* ------------------------------------------------------------ time stamps
\* The clock counts minutes.  An RFC 3339 string is modelled by its hour and
\* minute fields; DateTime::to_rfc3339 renders them, parse_from_rfc3339 reads
\* them back.
\* a rendering that keeps the minute field only
ToRfc3339NoHour(t) == << 0, t % 60 >>

ToRfc3339(t) == << t \div 60, t % 60 >>
ParseFromRfc3339(s) == s[1] * 60 + s[2]

\* ------------------------------------------------------- transcript records
\* One decoded line: kind, optional session id, the timestamp field ("none":
\* absent, "bad": present but not RFC 3339, "ok": the instant t) and whether
\* the record renders to any text.
Entry(kind, sid, tk, t, blank) ==
    [kind |-> kind, sid |-> sid, tk |-> tk, t |-> t, blank |-> blank]

\* The record shapes the producer appends at instant t.
EntryShapes(t) ==
    { Entry("user", Some("s1"), "ok", t, FALSE),
      Entry("user", Some("s2"), "ok", t, FALSE),
      Entry("user", Some("s1"), "ok", t, TRUE),
      Entry("assistant", Some("s1"), "bad", 0, FALSE),
      Entry("summary", Some("s1"), "none", 0, FALSE) }

is_message(e) == e.kind \in {"user", "assistant"}
is_summary(e) == e.kind = "summary"
session_id(e) == e.sid
\* a parse that reads a timestamp that is not RFC 3339 as the epoch
ParsedTimestampBadAsEpoch(e) == IF e.tk \in {"ok", "bad"} THEN Some(e.t) ELSE None

\* e.timestamp().and_then(|ts| DateTime::parse_from_rfc3339(ts).ok())
ParsedTimestamp(e) == IF e.tk = "ok" THEN Some(e.t) ELSE None

\* a session test that also lets records without a session tag pass
session_filter_lenient(e, sid) ==
    IF IsSome(sid) THEN session_id(e) = sid \/ session_id(e) = None ELSE TRUE

session_filter(e, sid) == IF IsSome(sid) THEN session_id(e) = sid ELSE TRUE
\* a content test that lets every record pass
content_filter_any(e) == TRUE

content_filter(e) == is_message(e) \/ is_summary(e)

Indices(n) == [i \in 1..n |-> i]

\* get_messages_since ignoring the cutoff: every run takes the whole history.
GetMessagesSinceNoCutoff(entries, since, sid) ==
    SelectSeq(Indices(Len(entries)),
              LAMBDA i : content_filter(entries[i]) /\ session_filter(entries[i], sid))

\* get_messages_since letting every summary through, whatever its session tag
\* or timestamp
GetMessagesSinceAllSummaries(entries, since, sid) ==
    SelectSeq(Indices(Len(entries)),
              LAMBDA i : \/ is_summary(entries[i])
                         \/ /\ is_message(entries[i])
                            /\ session_filter(entries[i], sid)
                            /\ LET ts == ParsedTimestamp(entries[i])
                               IN  IF IsSome(ts) /\ IsSome(since)
                                   THEN Unwrap(ts) > Unwrap(since) ELSE TRUE)

\* get_messages_since: the positions of the selected records, in order.
GetMessagesSince(entries, since, sid) ==
    IF IsSome(since)
    THEN SelectSeq(Indices(Len(entries)),
                   LAMBDA i : /\ content_filter(entries[i])
                              /\ session_filter(entries[i], sid)
                              /\ LET ts == ParsedTimestamp(entries[i])
                                 IN  IF IsSome(ts) THEN Unwrap(ts) > Unwrap(since)
                                                   ELSE TRUE)
    ELSE SelectSeq(Indices(Len(entries)),
                   LAMBDA i : content_filter(entries[i]) /\ session_filter(entries[i], sid))

\* a window closed at its end: start <= ts <= end
GetMessagesInWindowClosed(entries, start, end, sid) ==
    SelectSeq(Indices(Len(entries)),
              LAMBDA i : /\ content_filter(entries[i])
                         /\ session_filter(entries[i], sid)
                         /\ LET ts == ParsedTimestamp(entries[i])
                            IN  IF IsSome(ts)
                                THEN Unwrap(ts) >= start /\ Unwrap(ts) <= end
                                ELSE FALSE)

\* get_messages_in_window: start <= ts < end, records without a timestamp never.
GetMessagesInWindow(entries, start, end, sid) ==
    SelectSeq(Indices(Len(entries)),
              LAMBDA i : /\ content_filter(entries[i])
                         /\ session_filter(entries[i], sid)
                         /\ LET ts == ParsedTimestamp(entries[i])
                            IN  IF IsSome(ts)
                                THEN Unwrap(ts) >= start /\ Unwrap(ts) < end
                                ELSE FALSE)

\* format_context(..).trim().is_empty(): no selected record renders any text.
FormatsBlank(entries, idxs) ==
    \A k \in 1..Len(idxs) : entries[idxs[k]].blank \/ entries[idxs[k]].kind = "unknown"

\* ------------------------------------------------------------------ state
VARIABLES
    now,          \* wall clock (Utc::now), minutes
    transcript,   \* the append-only transcript file, one record per line
    ckptFile,     \* extraction_state.json by path: None when missing, Some(content)
    stateMd,      \* content of .wm/state.md
    pc,           \* position of each extract process
    run,          \* locals of each extract process
    started,      \* number of runs started
    delivered,    \* history: (session, record, run) passed to the oracle by successful runs
    arrived       \* history: records appended after a run had read the transcript

varsA == << now, transcript, ckptFile, stateMd, pc, run, started, delivered, arrived >>

NoRun == [sid |-> None, readAt |-> 0, currentState |-> << >>, lastExtracted |-> None,
          carryover |-> << >>, messages |-> << >>, has |-> FALSE, content |-> << >>,
          outcome |-> "", ckptBefore |-> None, stateBefore |-> << >>,
          out |-> None, calls |-> 0]

\* the clock at t, every checkpoint file holding c
InitAWith(t, c) ==
    /\ now = t
    /\ transcript = << >>
    /\ ckptFile = [f \in CheckpointFiles |-> c]
    /\ stateMd = << >>
    /\ pc = [p \in Procs |-> "idle"]
    /\ run = [p \in Procs |-> NoRun]
    /\ started = 0
    /\ delivered = {}
    /\ arrived = {}

InitA == InitAWith(1, None)

\* The transcript producer appends one record, stamped with the current instant.
AppendRecord ==
    /\ Len(transcript) < MaxAppends
    /\ \E e \in EntryShapes(now) :
          transcript' = Append(transcript, e)
    /\ now' = now + 1
    /\ arrived' = arrived \cup
          { [idx |-> Len(transcript) + 1, sid |-> run[p].sid, at |-> run[p].readAt] :
              p \in {q \in Procs : pc[q] \in {"oracle", "writeState", "writeCkpt"}} }
    /\ UNCHANGED << ckptFile, stateMd, pc, run, started, delivered >>

\* extraction_state.json holding something that is not the JSON object with an
\* RFC 3339 "last_extracted" string
Garbage == << >>

\* the cursor read from a file content (None: the file is missing)
ParseCheckpoint(file) ==
    IF IsSome(file) /\ Unwrap(file) # Garbage
    THEN Some(ParseFromRfc3339(Unwrap(file))) ELSE None

\* read_last_extracted: missing or unparsable file gives None
ReadLastExtracted(sid) == ParseCheckpoint(ckptFile[extraction_state_path(sid)])

\* extract_from_transcript, line 167: capture the read time before reading.
\* Runs of the sequence follow one another: a run starts when none is active.
StartRun(p, sid) ==
    /\ pc[p] = "idle"
    /\ started < MaxRuns
    /\ started' = started + 1
    /\ run' = [run EXCEPT ![p] = [NoRun EXCEPT !.sid = sid, !.readAt = now,
                                               !.ckptBefore = ckptFile[extraction_state_path(sid)],
                                               !.stateBefore = stateMd]]
    /\ now' = now + 1
    /\ pc' = [pc EXCEPT ![p] = "readState"]
    /\ UNCHANGED << transcript, ckptFile, stateMd, delivered, arrived >>

Begin(p, sid) == (\A q \in Procs : pc[q] = "idle") /\ StartRun(p, sid)

\* line 170: read state.md (empty when missing)
ReadState(p) ==
    /\ pc[p] = "readState"
    /\ run' = [run EXCEPT ![p].currentState = stateMd]
    /\ pc' = [pc EXCEPT ![p] = "readCkpt"]
    /\ UNCHANGED << now, transcript, ckptFile, stateMd, started, delivered, arrived >>

\* line 173
ReadCheckpoint(p) ==
    /\ pc[p] = "readCkpt"
    /\ run' = [run EXCEPT ![p].lastExtracted = ReadLastExtracted(run[p].sid)]
    /\ pc' = [pc EXCEPT ![p] = "readTranscript"]
    /\ UNCHANGED << now, transcript, ckptFile, stateMd, started, delivered, arrived >>

\* lines 180-237: parse the transcript, build the carry-over slice and the
\* new slice; return Ok early when the slice is empty or renders blank.
ReadTranscript(p) ==
    /\ pc[p] = "readTranscript"
    /\ LET r == run[p]
           carry == IF IsSome(r.lastExtracted)
                    THEN GetMessagesInWindow(transcript,
                             Unwrap(r.lastExtracted) - CARRYOVER_WINDOW_MINUTES,
                             Unwrap(r.lastExtracted), r.sid)
                    ELSE << >>
           msgs == GetMessagesSince(transcript, r.lastExtracted, r.sid)
       IN  IF msgs = << >>
           THEN /\ run' = [run EXCEPT ![p].carryover = carry, ![p].outcome = "nomsg"]
                /\ pc' = [pc EXCEPT ![p] = "done"]
           ELSE IF FormatsBlank(transcript, msgs)
           THEN /\ run' = [run EXCEPT ![p].carryover = carry, ![p].messages = msgs,
                                      ![p].outcome = "blank"]
                /\ pc' = [pc EXCEPT ![p] = "done"]
           ELSE /\ run' = [run EXCEPT ![p].carryover = carry, ![p].messages = msgs]
                /\ pc' = [pc EXCEPT ![p] = "oracle"]
    /\ UNCHANGED << now, transcript, ckptFile, stateMd, started, delivered, arrived >>

\* Result<T, String>
Ok(x) == << "ok", x >>
Err(msg) == << "err", msg >>
IsOk(r) == r[1] = "ok"

\* the standard output of the oracle subprocess: not JSON, JSON without a
\* "result" field, JSON whose "result" is not a string, JSON with the reply
NotJson == << "notjson" >>
JsonNoResult == << "json", "absent" >>
JsonResultNumber == << "json", "number" >>
JsonResult(text) == << "json", "string", text >>

\* what the subprocess did: spawned or not, waited for or not, exit status, output
ClaudeOutput(spawned, waited, success, stdout) ==
    [spawned |-> spawned, waited |-> waited, success |-> success, stdout |-> stdout]

\* the replies of the extraction oracle (extract.rs 332-340, and off-format ones)
ExtractReplies ==
    { << "HAS_KNOWLEDGE:", " ", "YES", "\n", "\n", "docA" >>,
      << "#", "#", " ", "HAS_KNOWLEDGE:", " ", "yes", "\n", "docB", "\n", "docC", "\n" >>,
      << "HAS_KNOWLEDGE:", " ", "YES" >>,
      << "HAS_KNOWLEDGE:", " ", "NO", "\n", "docA" >>,
      << "docA" >> }

ClaudeOutputs ==
    { ClaudeOutput(TRUE, TRUE, TRUE, JsonResult(r)) : r \in ExtractReplies }
    \cup { ClaudeOutput(FALSE, FALSE, FALSE, NotJson),
           ClaudeOutput(TRUE, FALSE, FALSE, NotJson),
           ClaudeOutput(TRUE, TRUE, FALSE,
                        JsonResult(<< "HAS_KNOWLEDGE:", " ", "YES", "\n", "\n", "docA" >>)),
           ClaudeOutput(TRUE, TRUE, TRUE, NotJson),
           ClaudeOutput(TRUE, TRUE, TRUE, JsonNoResult),
           ClaudeOutput(TRUE, TRUE, TRUE, JsonResultNumber) }

\* a call that takes a missing "result" field for an empty reply
call_claude_inner_lenient(o) ==
    IF ~o.spawned THEN Err("Failed to spawn claude CLI")
    ELSE IF ~o.waited THEN Err("Failed to wait for claude CLI")
    ELSE IF ~o.success THEN Err("Claude CLI failed")
    ELSE IF o.stdout[1] # "json" THEN Err("Failed to parse Claude CLI response")
    ELSE IF o.stdout[2] # "string" THEN Ok(<< >>)
    ELSE Ok(o.stdout[3])

\* llm.rs 62-107
call_claude_inner(o) ==
    IF ~o.spawned THEN Err("Failed to spawn claude CLI")
    ELSE IF ~o.waited THEN Err("Failed to wait for claude CLI")
    ELSE IF ~o.success THEN Err("Claude CLI failed")
    ELSE IF o.stdout[1] # "json" THEN Err("Failed to parse Claude CLI response")
    ELSE IF o.stdout[2] # "string" THEN Err("Claude CLI response missing 'result' field")
    ELSE Ok(o.stdout[3])

\* llm.rs 53-59
call_claude(o) == call_claude_inner(o)

\* extract.rs 362-368: Err returned with `?`, otherwise the parsed marker reply
call_generative_extraction(o) ==
    LET result_str == call_claude(o)
    IN  IF IsOk(result_str)
        THEN Ok(parse_marker_response(result_str[2], "HAS_KNOWLEDGE"))
        ELSE result_str

\* lines 240-247: the oracle call fails (the run returns the error) or
\* answers with or without knowledge.
Oracle(p) ==
    /\ pc[p] = "oracle"
    /\ \E o \in ClaudeOutputs :
          LET extraction == call_generative_extraction(o)
              r == [run[p] EXCEPT !.out = Some(o), !.calls = run[p].calls + 1]
          IN  IF IsOk(extraction)
              THEN /\ run' = [run EXCEPT ![p] = [r EXCEPT !.has = extraction[2].is_positive,
                                                         !.content = extraction[2].content]]
                   /\ pc' = [pc EXCEPT ![p] = IF extraction[2].is_positive
                                              THEN "writeState" ELSE "writeCkpt"]
              ELSE /\ run' = [run EXCEPT ![p] = [r EXCEPT !.outcome = "err"]]
                   /\ pc' = [pc EXCEPT ![p] = "done"]
    /\ UNCHANGED << now, transcript, ckptFile, stateMd, started, delivered, arrived >>

\* a run that adds the new content to the end of the document
WriteStateAppends(p) ==
    /\ pc[p] = "writeState"
    /\ stateMd' = stateMd \o run[p].content
    /\ pc' = [pc EXCEPT ![p] = "writeCkpt"]
    /\ UNCHANGED << now, transcript, ckptFile, run, started, delivered, arrived >>

\* lines 247-256: the knowledge document is replaced
WriteState(p) ==
    /\ pc[p] = "writeState"
    /\ stateMd' = run[p].content
    /\ pc' = [pc EXCEPT ![p] = "writeCkpt"]
    /\ UNCHANGED << now, transcript, ckptFile, run, started, delivered, arrived >>

\* the time stored by a run that stamps the checkpoint when it finishes
CheckpointTimeAfter(p) == now

\* line 282: the time stored is transcript_read_at
CheckpointTime(p) == run[p].readAt

\* a run that stores the checkpoint only when it wrote new knowledge
WriteCheckpointIfKnowledge(p) ==
    /\ pc[p] = "writeCkpt"
    /\ ckptFile' = IF run[p].has
                   THEN [ckptFile EXCEPT ![extraction_state_path(run[p].sid)] = Some(ToRfc3339(CheckpointTime(p)))]
                   ELSE ckptFile
    /\ run' = [run EXCEPT ![p].outcome = "ok"]
    /\ delivered' = delivered \cup
          { [sid |-> run[p].sid, idx |-> run[p].messages[k], at |-> run[p].readAt] :
              k \in 1..Len(run[p].messages) }
    /\ pc' = [pc EXCEPT ![p] = "done"]
    /\ UNCHANGED << now, transcript, stateMd, started, arrived >>

\* write_last_extracted(session_id, transcript_read_at), then Ok(())
WriteCheckpoint(p) ==
    /\ pc[p] = "writeCkpt"
    /\ ckptFile' = [ckptFile EXCEPT ![extraction_state_path(run[p].sid)] = Some(ToRfc3339(CheckpointTime(p)))]
    /\ run' = [run EXCEPT ![p].outcome = "ok"]
    /\ delivered' = delivered \cup
          { [sid |-> run[p].sid, idx |-> run[p].messages[k], at |-> run[p].readAt] :
              k \in 1..Len(run[p].messages) }
    /\ pc' = [pc EXCEPT ![p] = "done"]
    /\ UNCHANGED << now, transcript, stateMd, started, arrived >>

\* the process exits
Exit(p) ==
    /\ pc[p] = "done"
    /\ pc' = [pc EXCEPT ![p] = "idle"]
    /\ run' = [run EXCEPT ![p] = NoRun]
    /\ UNCHANGED << now, transcript, ckptFile, stateMd, started, delivered, arrived >>

\* ------------------------------------------------------- claims of part A
DeliveredTo(sid, i) == \E d \in delivered : d.sid = sid /\ d.idx = i

\* C1: a record is never silently skipped. Every record of a session whose
\* timestamp is not later than the session's stored checkpoint has been passed
\* to the oracle by a successful run; hence a record appended after a run read
\* the transcript (stamped later than the time that run captured and stored)
\* is still ahead of the checkpoint and is selected by the next run.
C1_NoMessageSkipped ==
    \A sid \in RunSessions :
        IsSome(ckptFile[extraction_state_path(sid)]) =>
            \A i \in 1..Len(transcript) :
                LET e == transcript[i]
                    ts == ParsedTimestamp(e)
                IN  ( /\ content_filter(e)
                      /\ session_filter(e, sid)
                      /\ IsSome(ts)
                      /\ Unwrap(ts) <= ParseFromRfc3339(Unwrap(ckptFile[extraction_state_path(sid)])) )
                    => DeliveredTo(sid, i)

\* a record arrived while a run was past its read; that run stored its
\* checkpoint, and a later successful run of the session selected the record
C1_Witness ==
    \E a \in arrived, d \in delivered :
        /\ d.idx = a.idx /\ d.sid = a.sid /\ d.at > a.at
        /\ \E d0 \in delivered : d0.sid = a.sid /\ d0.at = a.at

\* C2 as stated: no record is in the new-content slice of two successful runs
\* of one session.
C2_NoRecordReprocessed ==
    \A d1, d2 \in delivered :
        (d1.sid = d2.sid /\ d1.idx = d2.idx) => d1.at = d2.at

\* C2 amended: a record with a valid timestamp not later than the time captured
\* by the successful run that processed it is in no later run's new-content
\* slice; only records without a valid timestamp, and records stamped after the
\* run's captured time but read by it, are selected again.
C2_NoStampedRecordReprocessed ==
    \A d1, d2 \in delivered :
        (d1.sid = d2.sid /\ d1.idx = d2.idx /\ d1.at < d2.at) =>
            LET ts == ParsedTimestamp(transcript[d1.idx])
            IN  ~IsSome(ts) \/ Unwrap(ts) > d1.at

\* a stamped record processed by one successful run, and a later successful
\* run of the same session whose slice did not contain it
C2_Witness ==
    \E d1, d2 \in delivered :
        /\ d1.sid = d2.sid /\ d1.at < d2.at
        /\ IsSome(ParsedTimestamp(transcript[d1.idx]))
        /\ Unwrap(ParsedTimestamp(transcript[d1.idx])) < d1.at
        /\ ~ \E d \in delivered : d.sid = d1.sid /\ d.idx = d1.idx /\ d.at = d2.at

\* C3 as stated: every run that completes without error, the early returns
\* included, leaves the checkpoint equal to the time it captured.
C3_CheckpointAfterEveryOkRun ==
    \A p \in Procs :
        (pc[p] = "done" /\ run[p].outcome \in {"ok", "nomsg", "blank"}) =>
            ckptFile[extraction_state_path(run[p].sid)] = Some(ToRfc3339(run[p].readAt))

\* C3 amended: a run that reaches the oracle and completes without error leaves
\* the checkpoint equal to the time it captured, with or without new knowledge;
\* a run that ends early (no new record, or blank rendering) leaves the
\* checkpoint as it was.
C3_CheckpointAfterOracleRun ==
    \A p \in Procs :
        pc[p] = "done" =>
            /\ run[p].outcome = "ok" =>
                   ckptFile[extraction_state_path(run[p].sid)] = Some(ToRfc3339(run[p].readAt))
            /\ run[p].outcome \in {"nomsg", "blank"} =>
                   ckptFile[extraction_state_path(run[p].sid)] = run[p].ckptBefore

\* a run completed without new knowledge after an earlier checkpoint existed
C3_Witness ==
    \E p \in Procs :
        /\ pc[p] = "done" /\ run[p].outcome = "ok" /\ ~run[p].has
        /\ IsSome(run[p].ckptBefore)

\* the subprocess exited without success, or its output is not JSON, or the
\* JSON has no string "result"
FailedOutput(o) == ~o.success \/ o.stdout[1] # "json" \/ o.stdout[2] # "string"

\* C21: a non-success exit of the oracle process, output that is not JSON, or
\* JSON without a string "result" makes call_claude return an error; the
\* extract run in which this happens returns the error after that one call and
\* leaves state.md and the session's checkpoint as they were before the run.
C21_OracleErrorLeavesStateAndCheckpoint ==
    \A p \in Procs :
        (pc[p] = "done" /\ IsSome(run[p].out) /\ FailedOutput(Unwrap(run[p].out))) =>
            /\ ~IsOk(call_claude(Unwrap(run[p].out)))
            /\ run[p].outcome = "err"
            /\ run[p].calls = 1
            /\ stateMd = run[p].stateBefore
            /\ ckptFile[extraction_state_path(run[p].sid)] = run[p].ckptBefore

\* a run of a session that has a checkpoint and a non-empty state.md got JSON
\* without a "result" field from the oracle and has returned
C21_Witness ==
    \E p \in Procs :
        /\ pc[p] = "done" /\ run[p].out = Some(ClaudeOutput(TRUE, TRUE, TRUE, JsonNoResult))
        /\ IsSome(run[p].ckptBefore) /\ run[p].stateBefore # << >>

\* the lines of a reply, its first marker line, and what follows that line
MarkerLines(reply, prefix) ==
    {i \in 1..Len(Lines(reply)) :
        LET st == strip_markdown_prefix(Lines(reply)[i]) IN st # << >> /\ Head(st) = prefix}
FirstMarkerLine(reply, prefix) ==
    CHOOSE i \in MarkerLines(reply, prefix) : \A j \in MarkerLines(reply, prefix) : i <= j
ReplyPositive(reply, prefix) ==
    /\ MarkerLines(reply, prefix) # {}
    /\ ToUpperSeq(Trim(Tail(strip_markdown_prefix(
           Lines(reply)[FirstMarkerLine(reply, prefix)])))) \in {<< "YES" >>, << "TRUE" >>}
ReplyContent(reply, prefix) ==
    Trim(Join(SubSeq(Lines(reply), FirstMarkerLine(reply, prefix) + 1, Len(Lines(reply)))))

\* C30: after an extract run in which the oracle answered positive, state.md
\* is the content that followed the marker line of the reply (trimmed), the
\* previous document being replaced as a whole; after a run in which the
\* oracle answered negative or without a marker, state.md is unchanged.
C30_StateReplacedWholesale ==
    \A p \in Procs :
        (pc[p] = "done" /\ run[p].outcome = "ok") =>
            LET reply == Unwrap(run[p].out).stdout[3]
            IN  IF ReplyPositive(reply, "HAS_KNOWLEDGE:")
                THEN stateMd = ReplyContent(reply, "HAS_KNOWLEDGE:")
                ELSE stateMd = run[p].stateBefore

\* state.md held a document; a positive reply with another document replaced it
C30_Witness ==
    \E p \in Procs :
        /\ pc[p] = "done" /\ run[p].outcome = "ok"
        /\ ReplyPositive(Unwrap(run[p].out).stdout[3], "HAS_KNOWLEDGE:")
        /\ run[p].stateBefore = << "docA" >>
        /\ stateMd = << "docB", "\n", "docC" >>

\* the records get_messages_since selects without a cursor
FullHistory(entries, sid) ==
    SelectSeq(Indices(Len(entries)),
              LAMBDA i : content_filter(entries[i]) /\ session_filter(entries[i], sid))

StoredCursor(file) == Unwrap(ParseCheckpoint(file))

\* C36: for one session id the stored checkpoint never decreases: under every
\* interleaving of extract runs of that session, overlapping ones included,
\* each write of the checkpoint stores a time not earlier than the one it
\* replaces.
C36_CheckpointNeverDecreases ==
    [][\A f \in CheckpointFiles :
          (IsSome(ParseCheckpoint(ckptFile[f])) /\ IsSome(ParseCheckpoint(ckptFile'[f])))
              => StoredCursor(ckptFile'[f]) >= StoredCursor(ckptFile[f])]_ckptFile

DocChunks == 2       \* write calls one document takes

Writers == {"w1", "w2"}
Files == {"state.md", "state.md.tmp", "state.md.backup",
          "guardrails.md", "metis.md", "raw_extractions.md"}
CategorizedFiles == {"guardrails.md", "metis.md"}

\* the complete document a writer produces, and the one on disk before
DocOf(w) == [k \in 1..DocChunks |-> << w, k >>]
OldDoc == [k \in 1..DocChunks |-> << "old", k >>]

VARIABLES
    fsDir,        \* directory: file name -> inode number, 0 when absent
    fsInodes,     \* inode number -> content (sequence of chunks)
    wr            \* per writer: status, program, position, open file and offset

varsB == << fsDir, fsInodes, wr >>

IdleWriter == [st |-> "idle", kind |-> "", prog |-> << >>, ip |-> 1,
               open |-> FALSE, fd |-> 0, off |-> 0]

InitB ==
    /\ fsInodes = << OldDoc, OldDoc, OldDoc >>
    /\ fsDir = [f \in Files |-> CASE f = "state.md" -> 1
                                  [] f = "guardrails.md" -> 2
                                  [] f = "raw_extractions.md" -> 3
                                  [] OTHER -> 0]
    /\ wr = [w \in Writers |-> IdleWriter]

\* what a reader of the file sees at this moment (None when it is absent)
ReadFile(f) == IF fsDir[f] = 0 THEN None ELSE Some(fsInodes[fsDir[f]])

WriteOp(path, content) == [op |-> "write", path |-> path, to |-> "", content |-> content]
RenameOp(from, to) == [op |-> "rename", path |-> from, to |-> to, content |-> << >>]

\* a writer that writes the new document straight into state.md
TmpPathInPlace == "state.md"

\* state::wm_path("state.md.tmp")
TmpPath == "state.md.tmp"

\* extract.rs 251-256: write the temp file, rename it over state.md
ExtractProgram(w) ==
    << WriteOp(TmpPath, DocOf(w)), RenameOp(TmpPath, "state.md") >>

\* compress.rs 45-55: backup of the state read at the start, temp file, rename
CompressProgram(w, current) ==
    << WriteOp("state.md.backup", current),
       WriteOp(TmpPath, DocOf(w)), RenameOp(TmpPath, "state.md") >>

\* distill.rs 312-314: std::fs::write(&path, content)
CategorizedProgram(w, f) == << WriteOp(f, DocOf(w)) >>

\* distill.rs 592-594: std::fs::write(&path, content)
RawProgram(w) == << WriteOp("raw_extractions.md", DocOf(w)) >>

Active(w) == wr[w].st = "run"
NoneActive == \A w \in Writers : ~Active(w)

StartWriter(w, kind, prog) ==
    /\ wr[w].st = "idle"
    /\ wr' = [wr EXCEPT ![w] = [IdleWriter EXCEPT !.st = "run", !.kind = kind,
                                                  !.prog = prog]]
    /\ UNCHANGED << fsDir, fsInodes >>

\* an extract run whose oracle answered positive reaches line 251
StartExtractWrite(w) == StartWriter(w, "extract", ExtractProgram(w))

\* a compress run: state.md read at line 19 (non-empty), oracle answered positive
StartCompressWrite(w) ==
    /\ IsSome(ReadFile("state.md"))
    /\ Unwrap(ReadFile("state.md")) # << >>
    /\ StartWriter(w, "compress", CompressProgram(w, Unwrap(ReadFile("state.md"))))

\* run_pass2 writes a categorized file
StartCategorizedWrite(w, f) == StartWriter(w, "categorized", CategorizedProgram(w, f))

\* distill::run writes the raw extraction document
StartRawWrite(w) == StartWriter(w, "raw", RawProgram(w))

CurOp(w) == wr[w].prog[wr[w].ip]

\* the writer after finishing its current operation
Advance(r) ==
    IF r.ip = Len(r.prog)
    THEN [r EXCEPT !.st = "done", !.open = FALSE]
    ELSE [r EXCEPT !.ip = r.ip + 1, !.open = FALSE]

\* File::create(path): a new empty inode, or the existing one truncated
FsOpen(w) ==
    /\ Active(w) /\ ~wr[w].open /\ CurOp(w).op = "write"
    /\ LET f == CurOp(w).path
           ino == IF fsDir[f] = 0 THEN Len(fsInodes) + 1 ELSE fsDir[f]
           r == [wr[w] EXCEPT !.open = TRUE, !.fd = ino, !.off = 0]
       IN  /\ fsInodes' = IF fsDir[f] = 0 THEN Append(fsInodes, << >>)
                          ELSE [fsInodes EXCEPT ![ino] = << >>]
           /\ fsDir' = [fsDir EXCEPT ![f] = ino]
           /\ wr' = [wr EXCEPT ![w] = IF CurOp(w).content = << >> THEN Advance(r) ELSE r]

\* the content after writing one chunk at an offset (a gap reads as zeros)
WriteAt(content, off, chunk) ==
    [k \in 1..(IF off + 1 > Len(content) THEN off + 1 ELSE Len(content)) |->
        IF k = off + 1 THEN chunk
        ELSE IF k <= Len(content) THEN content[k] ELSE << "zero", 0 >>]

\* one write call of write_all, at the descriptor's offset; the file is closed
\* after the last one
FsWriteChunk(w) ==
    /\ Active(w) /\ wr[w].open /\ CurOp(w).op = "write"
    /\ LET r == wr[w]
           c == CurOp(w).content
           r2 == [r EXCEPT !.off = r.off + 1]
       IN  /\ fsInodes' = [fsInodes EXCEPT ![r.fd] = WriteAt(@, r.off, c[r.off + 1])]
           /\ wr' = [wr EXCEPT ![w] = IF r2.off = Len(c) THEN Advance(r2) ELSE r2]
    /\ UNCHANGED fsDir

\* std::fs::rename(from, to); Err when from does not exist, and the run fails
FsRename(w) ==
    /\ Active(w) /\ CurOp(w).op = "rename"
    /\ LET from == CurOp(w).path
           to == CurOp(w).to
       IN  IF fsDir[from] = 0
           THEN /\ wr' = [wr EXCEPT ![w].st = "failed"]
                /\ UNCHANGED fsDir
           ELSE /\ fsDir' = IF from = to THEN fsDir
                            ELSE [fsDir EXCEPT ![to] = fsDir[from], ![from] = 0]
                /\ wr' = [wr EXCEPT ![w] = Advance(wr[w])]
    /\ UNCHANGED fsInodes

\* the process dies between two system calls
Crash(w) ==
    /\ Active(w)
    /\ wr' = [wr EXCEPT ![w].st = "crashed"]
    /\ UNCHANGED << fsDir, fsInodes >>

\* ------------------------------------------------------- claims of part B
CompleteDocs == {OldDoc} \cup {DocOf(w) : w \in Writers}

\* C4: with concurrent writers of the knowledge document, a reader of state.md
\* sees at every moment a complete document (the previous one or the whole
\* content of one writer), never a partial or mixed one.
C4_ReaderSeesCompleteDocument ==
    ReadFile("state.md") \in {Some(d) : d \in CompleteDocs}

\* C5: with a single writer process at a time that may crash at any step,
\* state.md holds its complete old content or a complete new content.
C5_CrashLeavesCompleteDocument ==
    IsSome(ReadFile("state.md")) /\ Unwrap(ReadFile("state.md")) \in CompleteDocs

\* an extract or compress writer crashed with its temp file half written
C5_Witness ==
    \E w \in Writers :
        /\ wr[w].st = "crashed" /\ wr[w].kind \in {"extract", "compress"}
        /\ wr[w].open /\ CurOp(w).path = TmpPath
        /\ wr[w].off > 0 /\ wr[w].off < DocChunks

\* C6: after a crash in the middle of writing a categorized file or the raw
\* extraction document, the file is absent or holds a complete document.
C6_DistillCrashLeavesCompleteFile ==
    \A w \in Writers :
        (wr[w].st = "crashed" /\ wr[w].kind \in {"categorized", "raw"}) =>
            \A f \in CategorizedFiles \cup {"raw_extractions.md"} :
                IsSome(ReadFile(f)) => Unwrap(ReadFile(f)) \in CompleteDocs

(***************************************************************************)
(* Part C  the recursion guard: main.rs 95-127, llm.rs EnvGuard /          *)
(*         call_claude / call_claude_inner, compress.rs call_compression   *)
(* One wm process is started with some environment, passes or does not     *)
(* pass the check at the top of main, and runs a command that calls the    *)
(* oracle. While the oracle subprocess runs it may start wm processes of   *)
(* its own (its hooks), which inherit the subprocess's environment.        *)
(***************************************************************************)
EnvVars == {"WM_DISABLED", "SUPEREGO_DISABLED"}

\* the value of an environment variable: absent, a Unicode string, or bytes
\* that are not valid Unicode
Unset == << "unset", "" >>
Str(s) == << "str", s >>
NotUnicode == << "bytes", "" >>
OsValues == {Unset, Str("1"), Str("0"), Str(""), NotUnicode}
Environments == [EnvVars -> OsValues]

\* std::env::var(name).ok(): Some only for a value that is valid Unicode
EnvVarOk(e, name) == IF e[name][1] = "str" THEN Some(e[name][2]) ELSE None
SetVar(e, name, val) == [e EXCEPT ![name] = Str(val)]
RemoveVar(e, name) == [e EXCEPT ![name] = Unset]

\* EnvGuard::new: the captured original value, and the environment after
EnvGuardOriginal(e, name) == EnvVarOk(e, name)
EnvGuardNew(e, name, val) == SetVar(e, name, val)

\* Drop for EnvGuard
EnvGuardDrop(e, name, original) ==
    IF IsSome(original) THEN SetVar(e, name, Unwrap(original)) ELSE RemoveVar(e, name)

\* a check that only the value "1" passes
DisabledIfOne(e) == e["WM_DISABLED"] = Str("1")

\* main.rs 97: std::env::var("WM_DISABLED").is_ok()
Disabled(e) == IsSome(EnvVarOk(e, "WM_DISABLED"))

Commands == {"extract", "compile", "compress"}
LlmOutcomes == {"spawn_failed", "wait_failed", "exit_failure", "unparsable",
                "missing_result", "success"}

VARIABLES
    startEnv,     \* the environment the wm process was started with
    penv,         \* its environment now
    ppc,          \* its position
    cmd,          \* the command it runs ("" when none)
    before,       \* the environment when the oracle call began
    guards,       \* the original values held by the two EnvGuards
    childEnv,     \* the environment of the running oracle subprocess
    outcome,      \* how the oracle call ended
    nested        \* wm processes started by the oracle subprocess

varsC == << startEnv, penv, ppc, cmd, before, guards, childEnv, outcome, nested >>

NoEnv == [v \in EnvVars |-> Unset]
NoGuards == [v \in EnvVars |-> None]

InitCWith(e) ==
    /\ startEnv = e /\ penv = e
    /\ ppc = "main" /\ cmd = "" /\ before = NoEnv /\ guards = NoGuards
    /\ childEnv = NoEnv /\ outcome = "" /\ nested = {}

\* a process started with any environment
InitC == \E e \in Environments : InitCWith(e)

\* main.rs 96-99: return ExitCode::SUCCESS before the command line is parsed
MainDisabled ==
    /\ ppc = "main" /\ Disabled(penv)
    /\ ppc' = "exit_success"
    /\ UNCHANGED << startEnv, penv, cmd, before, guards, childEnv, outcome, nested >>

\* main.rs 101-118: dispatch to a command that calls the oracle
MainDispatch ==
    /\ ppc = "main" /\ ~Disabled(penv)
    /\ \E c \in Commands :
        /\ cmd' = c
        /\ ppc' = IF c = "compress" THEN "call_compression" ELSE "call_claude"
    /\ before' = penv
    /\ UNCHANGED << startEnv, penv, guards, childEnv, outcome, nested >>

\* llm.rs 55-56: the two guards, WM_DISABLED first
CallClaude ==
    /\ ppc = "call_claude"
    /\ guards' = [v \in EnvVars |-> EnvGuardOriginal(penv, v)]
    /\ penv' = EnvGuardNew(EnvGuardNew(penv, "WM_DISABLED", "1"), "SUPEREGO_DISABLED", "1")
    /\ ppc' = "inner"
    /\ UNCHANGED << startEnv, cmd, before, childEnv, outcome, nested >>

\* llm.rs 79-81: cmd.spawn(), Err returned with `?`
SpawnClaude ==
    /\ ppc = "inner"
    /\ \/ /\ outcome' = "spawn_failed" /\ ppc' = "drop" /\ UNCHANGED childEnv
       \/ /\ childEnv' = penv /\ ppc' = "child" /\ UNCHANGED outcome
    /\ UNCHANGED << startEnv, penv, cmd, before, guards, nested >>

\* the wm process a hook of the oracle subprocess starts: main.rs 96-118
NestedProcess(e) ==
    [wm |-> e["WM_DISABLED"], ran |-> ~Disabled(e), exit |-> "success"]

\* the oracle subprocess starts a wm process, which inherits its environment
NestedStart ==
    /\ ppc \in {"child", "compress_child"}
    /\ nested' = nested \cup {NestedProcess(childEnv)}
    /\ UNCHANGED << startEnv, penv, ppc, cmd, before, guards, childEnv, outcome >>

\* llm.rs 83-106: wait_with_output and the checks on the output
WaitClaude ==
    /\ ppc = "child"
    /\ outcome' \in LlmOutcomes \ {"spawn_failed"}
    /\ ppc' = "drop"
    /\ UNCHANGED << startEnv, penv, cmd, before, guards, childEnv, nested >>

\* call_claude returns: _sg_guard is dropped, then _wm_guard
DropGuards ==
    /\ ppc = "drop"
    /\ penv' = EnvGuardDrop(EnvGuardDrop(penv, "SUPEREGO_DISABLED",
                                         guards["SUPEREGO_DISABLED"]),
                            "WM_DISABLED", guards["WM_DISABLED"])
    /\ ppc' = "returned"
    /\ UNCHANGED << startEnv, cmd, before, guards, childEnv, outcome, nested >>

\* compress.rs 94: set_var("WM_DISABLED", "1")
CallCompression ==
    /\ ppc = "call_compression"
    /\ penv' = SetVar(penv, "WM_DISABLED", "1")
    /\ ppc' = "compress_inner"
    /\ UNCHANGED << startEnv, cmd, before, guards, childEnv, outcome, nested >>

\* compress.rs 150-164: SUPEREGO_DISABLED only in the child; spawn Err returned
SpawnCompression ==
    /\ ppc = "compress_inner"
    /\ \/ /\ outcome' = "spawn_failed" /\ ppc' = "returned" /\ UNCHANGED childEnv
       \/ /\ childEnv' = SetVar(penv, "SUPEREGO_DISABLED", "1")
          /\ ppc' = "compress_child" /\ UNCHANGED outcome
    /\ UNCHANGED << startEnv, penv, cmd, before, guards, nested >>

\* compress.rs 166-185: wait Err returned; otherwise remove_var, then the checks
WaitCompression ==
    /\ ppc = "compress_child"
    /\ \/ /\ outcome' = "wait_failed" /\ UNCHANGED penv
       \/ /\ outcome' \in {"exit_failure", "unparsable", "success"}
          /\ penv' = RemoveVar(penv, "WM_DISABLED")
    /\ ppc' = "returned"
    /\ UNCHANGED << startEnv, cmd, before, guards, childEnv, nested >>

\* main.rs 120-126: the exit code of the command
MainExit ==
    /\ ppc = "returned"
    /\ ppc' = IF outcome = "success" THEN "exit_success" ELSE "exit_failure"
    /\ UNCHANGED << startEnv, penv, cmd, before, guards, childEnv, outcome, nested >>

\* ------------------------------------------------------- claims of part C
\* C7: for every outcome of call_claude, both variables are "1" while the
\* oracle subprocess runs, and after the call returns each variable holds
\* exactly the value it had before the call.
C7_GuardSetAndRestored ==
    /\ (ppc = "child" => \A v \in EnvVars : childEnv[v] = Str("1"))
    /\ ((ppc = "returned" /\ cmd # "compress") => penv = before)

\* C8: after call_compression returns, on every path, WM_DISABLED has the value
\* it had before the call, and it is "1" while the subprocess runs.
C8_CompressionGuardRestored ==
    /\ (ppc = "compress_child" => childEnv["WM_DISABLED"] = Str("1"))
    /\ ((ppc = "returned" /\ cmd = "compress") =>
            penv["WM_DISABLED"] = before["WM_DISABLED"])

\* C9 as stated: a wm process started while WM_DISABLED is set, with whatever
\* value, runs no command and exits with success.
C9_SetGuardRunsNothing ==
    /\ (startEnv["WM_DISABLED"] # Unset => cmd = "" /\ ppc \in {"main", "exit_success"})
    /\ \A n \in nested : n.wm # Unset => ~n.ran /\ n.exit = "success"

\* C9 amended: a wm process started while WM_DISABLED holds a Unicode string
\* (any string, as "1" set by the guard) runs no command and exits with
\* success; every wm process started by the oracle subprocess is such a one.
C9_UnicodeGuardRunsNothing ==
    /\ (startEnv["WM_DISABLED"][1] = "str" => cmd = "" /\ ppc \in {"main", "exit_success"})
    /\ \A n \in nested : ~n.ran /\ n.exit = "success" /\ n.wm = Str("1")

\* the oracle subprocess of call_claude has started a wm process, which found
\* WM_DISABLED = "1" and ran nothing
C9_Witness ==
    /\ ppc = "child"
    /\ \E n \in nested : n.wm = Str("1") /\ ~n.ran /\ n.exit = "success"

(***************************************************************************)
(* Part D  distill pass 1: distill.rs run_pass1, needs_extraction,         *)
(*         save_extraction_cache, log_extraction_error                     *)
(***************************************************************************)
MaxSessions == 2     \* sessions in the list handed to pass 1

AllIds == << "a", "b", "c", "d" >>
DistillIds == {AllIds[k] : k \in 1..MaxSessions}
Sizes == {1, 2}

SessionInfo(id, size) == [session_id |-> id, size_bytes |-> size]
SessionExtraction(id, at, has, content, size) ==
    [session_id |-> id, extracted_at |-> at, has_knowledge |-> has,
     content |-> content, file_size_bytes |-> size]

\* lists of sessions with distinct ids (one transcript file per session)
SessionLists ==
    UNION {{l \in [1..n -> {SessionInfo(id, sz) : id \in DistillIds, sz \in Sizes}] :
                \A i, j \in 1..n : i # j => l[i].session_id # l[j].session_id}
           : n \in 0..MaxSessions}

\* cache.json as loaded: for each id, no entry or the entry of an earlier run
Caches == [DistillIds -> {None} \cup {Some(SessionExtraction(id, 0, TRUE, "old", sz)) : id \in DistillIds, sz \in Sizes}]
WellKeyed(c) == \A id \in DistillIds : IsSome(c[id]) => Unwrap(c[id]).session_id = id
EmptyCache == [id \in DistillIds |-> None]

\* what extract_from_session returns in an Ok: has_knowledge and content as
\* parse_marker_response gives them (a positive reply may have nothing after
\* the marker line)
ExtractionOutcomes == {<< TRUE, "new" >>, << TRUE, "" >>, << FALSE, "" >>}

\* re-extraction only when the transcript has grown
needs_extraction_if_grown(session, c) ==
    IF IsSome(c[session.session_id])
    THEN Unwrap(c[session.session_id]).file_size_bytes < session.size_bytes
    ELSE TRUE

\* distill.rs 429-437
needs_extraction(session, c) ==
    IF IsSome(c[session.session_id])
    THEN Unwrap(c[session.session_id]).file_size_bytes # session.size_bytes
    ELSE TRUE

\* error strings, as sequences of characters; one of them has two lines
ErrMessages == { << "E" >>, << "E", "\n", "F" >> }

\* distill.rs 615: error.replace('\n', " | ")
RECURSIVE ErrorOneLine(_)
ErrorOneLine(e) ==
    IF e = << >> THEN << >>
    ELSE (IF Head(e) = "\n" THEN << " | " >> ELSE << Head(e) >>) \o ErrorOneLine(Tail(e))

\* distill.rs 616: format!("[{}] Session {}: {}\n", timestamp, session_id, error_oneline)
LogLine(id, e) == << "[", "ts", "] Session ", id, ": " >> \o ErrorOneLine(e) \o << "\n" >>

\* distill.rs 600-624: the line is appended, or (directory, open or write
\* failing) nothing happens and nothing is reported
log_extraction_error(log, id, e, written) ==
    IF written THEN log \o LogLine(id, e) ELSE log

\* errors.log before the run
PriorLog == << "[", "ts", "] Session ", "a", ": ", "E", "\n" >>

RECURSIVE CountLines(_)
CountLines(log) ==
    IF log = << >> THEN 0
    ELSE (IF Head(log) = "\n" THEN 1 ELSE 0) + CountLines(Tail(log))

VARIABLES
    sessions,     \* the list handed to run_pass1
    force,        \* --force
    cache0,       \* the cache as loaded at the start
    cache,        \* the cache in memory
    cacheFile,    \* cache.json on disk, as a later load would see it
    results,      \* the result vector
    di,           \* index of the next session of the loop
    dpc,          \* "loop", then "ok" or "err" (what run_pass1 returned)
    errLog,       \* errors.log
    attempts,     \* what happened to each session visited so far
    pass,         \* 1 for the first run of pass 1, 2 for a later run
    prev          \* force, attempts and results of the first run, once it is over

varsD == << sessions, force, cache0, cache, cacheFile, results, di, dpc, errLog,
           attempts, pass, prev >>

NoPrev == [force |-> FALSE, attempts |-> << >>, results |-> << >>]

InitDWith(l, f, c) ==
    /\ sessions = l /\ force = f
    /\ cache0 = c /\ cache = c /\ cacheFile = c
    /\ results = << >> /\ di = 1 /\ dpc = "loop"
    /\ errLog = PriorLog /\ attempts = << >>
    /\ pass = 1 /\ prev = NoPrev

InitD == \E l \in SessionLists, f \in BOOLEAN, c \in Caches : WellKeyed(c) /\ InitDWith(l, f, c)

InLoop == dpc = "loop" /\ di <= Len(sessions)

\* the cache used only for entries that hold knowledge
UseCachedIfKnowledge(session) ==
    /\ ~force /\ ~needs_extraction(session, cache) /\ IsSome(cache[session.session_id])
    /\ Unwrap(cache[session.session_id]).has_knowledge

\* distill.rs 373-374
UseCached(session) == ~force /\ ~needs_extraction(session, cache) /\ IsSome(cache[session.session_id])
Attempt(id, how, err, written) == [id |-> id, how |-> how, err |-> err, written |-> written]

\* distill.rs 373-380: the cached extraction is pushed
Pass1Cached ==
    /\ InLoop /\ UseCached(sessions[di])
    /\ results' = Append(results, Unwrap(cache[sessions[di].session_id]))
    /\ attempts' = Append(attempts, Attempt(sessions[di].session_id, "cached", << >>, FALSE))
    /\ di' = di + 1
    /\ UNCHANGED << sessions, force, cache0, cache, cacheFile, dpc, errLog, pass, prev >>

\* an extraction merged into the existing entry, keeping its extracted_at
Pass1ExtractedMerges ==
    /\ InLoop /\ ~UseCached(sessions[di])
    /\ \E o \in ExtractionOutcomes :
        LET s == sessions[di]
            x == SessionExtraction(s.session_id, pass, o[1], o[2], s.size_bytes)
            old == cache[s.session_id]
        IN  /\ cache' = [cache EXCEPT ![s.session_id] =
                            IF IsSome(old)
                            THEN Some([x EXCEPT !.extracted_at = Unwrap(old).extracted_at])
                            ELSE Some(x)]
            /\ results' = Append(results, x)
            /\ attempts' = Append(attempts, Attempt(s.session_id, "extracted", << >>, FALSE))
    /\ di' = di + 1
    /\ UNCHANGED << sessions, force, cache0, cacheFile, dpc, errLog, pass, prev >>

\* distill.rs 384-398: extract_from_session returned Ok
Pass1Extracted ==
    /\ InLoop /\ ~UseCached(sessions[di])
    /\ \E o \in ExtractionOutcomes :
        LET s == sessions[di]
            x == SessionExtraction(s.session_id, pass, o[1], o[2], s.size_bytes)
        IN  /\ cache' = [cache EXCEPT ![s.session_id] = Some(x)]
            /\ results' = Append(results, x)
            /\ attempts' = Append(attempts, Attempt(s.session_id, "extracted", << >>, FALSE))
    /\ di' = di + 1
    /\ UNCHANGED << sessions, force, cache0, cacheFile, dpc, errLog, pass, prev >>

\* stopping the batch at the first failing session
Pass1FailedAborts ==
    /\ InLoop /\ ~UseCached(sessions[di])
    /\ \E e \in ErrMessages :
        /\ errLog' = log_extraction_error(errLog, sessions[di].session_id, e, TRUE)
        /\ attempts' = Append(attempts, Attempt(sessions[di].session_id, "failed", e, TRUE))
    /\ dpc' = "err"
    /\ UNCHANGED << sessions, force, cache0, cache, cacheFile, results, di, pass, prev >>

\* distill.rs 399-405: extract_from_session returned Err; logged, loop goes on
Pass1Failed ==
    /\ InLoop /\ ~UseCached(sessions[di])
    /\ \E e \in ErrMessages, written \in BOOLEAN :
        /\ errLog' = log_extraction_error(errLog, sessions[di].session_id, e, written)
        /\ attempts' = Append(attempts, Attempt(sessions[di].session_id, "failed", e, written))
    /\ di' = di + 1
    /\ UNCHANGED << sessions, force, cache0, cache, cacheFile, results, dpc, pass, prev >>

\* distill.rs 409 and 572-584: the cache is saved, or the error is returned
\* (the file then untouched, or truncated and loading as empty)
SaveExtractionCache ==
    /\ dpc = "loop" /\ di > Len(sessions)
    /\ \/ /\ cacheFile' = cache /\ dpc' = "ok"
       \/ /\ cacheFile' \in {cacheFile, EmptyCache} /\ dpc' = "err"
    /\ UNCHANGED << sessions, force, cache0, cache, results, di, errLog, attempts, pass, prev >>

\* ------------------------------------------------------- claims of part D
Ids(seq) == [k \in 1..Len(seq) |-> seq[k].session_id]
AttemptIds == [k \in 1..Len(attempts) |-> attempts[k].id]
Failed == {k \in 1..Len(attempts) : attempts[k].how = "failed"}
NotFailedIds == SelectSeq(AttemptIds, LAMBDA id : \A k \in Failed : attempts[k].id # id)
LinesAppended == CountLines(errLog) - CountLines(PriorLog)
AppendOnly == SubSeq(errLog, 1, Len(PriorLog)) = PriorLog

\* what holds of every pass, whatever fails
Pass1Isolation ==
    /\ AttemptIds = SubSeq(Ids(sessions), 1, di - 1)
    /\ Ids(results) = NotFailedIds
    /\ \A k \in Failed : cache[attempts[k].id] = cache0[attempts[k].id]
    /\ \A k \in 1..Len(attempts) : attempts[k].how = "extracted" =>
            /\ IsSome(cache[attempts[k].id])
            /\ Unwrap(cache[attempts[k].id]) \in {results[j] : j \in 1..Len(results)}
    /\ AppendOnly

\* C10 as stated: when pass 1 has ended, every session was attempted in order,
\* the results hold an entry for every non-failing session, exactly one line
\* was appended to the error log for each failing session, the cache entry of
\* a failing session is unchanged, and the cache was saved.
C10_Pass1ExactlyOneLineAndSaved ==
    dpc \in {"ok", "err"} =>
        /\ Pass1Isolation /\ di = Len(sessions) + 1
        /\ LinesAppended = Cardinality(Failed)
        /\ cacheFile = cache

\* C10 amended: at every step the sessions visited so far are the list's prefix
\* in order, the results hold the entries of the non-failing ones, the cache
\* entry of a failing one is unchanged, and the error log has grown by exactly
\* one line for each failing session whose line could be written (none for the
\* others); when pass 1 returns Ok every session was visited and cache.json
\* holds the cache with all successful entries.
C10_Pass1BestEffortLog ==
    /\ Pass1Isolation
    /\ LinesAppended = Cardinality({k \in Failed : attempts[k].written})
    /\ dpc = "ok" => (di = Len(sessions) + 1 /\ cacheFile = cache)
    /\ dpc = "err" => di = Len(sessions) + 1

\* pass 1 returned Ok after a session failed with a two-line error that was
\* logged, and a later session was extracted
C10_Witness ==
    /\ dpc = "ok"
    /\ \E k \in Failed :
        /\ attempts[k].written /\ Len(attempts[k].err) > 1
        /\ \E j \in (k + 1)..Len(attempts) : attempts[j].how = "extracted"

\* distill run again over the same sessions, sizes unchanged: run_pass1 starts
\* with the cache loaded from cache.json (distill.rs 365)
StartSecondPass ==
    /\ pass = 1 /\ dpc = "ok"
    /\ prev' = [force |-> force, attempts |-> attempts, results |-> results]
    /\ pass' = 2
    /\ force' \in BOOLEAN
    /\ cache0' = cacheFile /\ cache' = cacheFile
    /\ results' = << >> /\ attempts' = << >> /\ di' = 1 /\ dpc' = "loop"
    /\ UNCHANGED << sessions, cacheFile, errLog >>

\* the entry the first run put into the results for a session
PrevResult(id) ==
    LET j == CHOOSE j \in 1..Len(prev.results) : prev.results[j].session_id = id
    IN  prev.results[j]

\* C11: in a non-forced second run after a non-forced first run that returned
\* Ok, every session the first run extracted successfully (with or without
\* knowledge) is taken from the cache: extract_from_session, and so the oracle,
\* is not called for it, and the entry pushed is the first run's, unchanged.
C11_SecondPassUsesCache ==
    (pass = 2 /\ ~force /\ ~prev.force) =>
        \A k \in 1..Len(attempts) :
            (\E j \in 1..Len(prev.attempts) :
                prev.attempts[j].id = attempts[k].id /\ prev.attempts[j].how = "extracted")
            => /\ attempts[k].how = "cached"
               /\ \E r \in 1..Len(results) : results[r] = PrevResult(attempts[k].id)

\* the second non-forced run has returned after taking from the cache a session
\* the first run had extracted and found without knowledge
C11_Witness ==
    /\ pass = 2 /\ ~force /\ ~prev.force /\ dpc = "ok"
    /\ \E k \in 1..Len(attempts) :
        /\ attempts[k].how = "cached"
        /\ \E j \in 1..Len(prev.attempts) :
            /\ prev.attempts[j].id = attempts[k].id /\ prev.attempts[j].how = "extracted"
        /\ ~PrevResult(attempts[k].id).has_knowledge

\* the session record of an id of the list
SessionOf(id) == sessions[CHOOSE i \in 1..Len(sessions) : sessions[i].session_id = id]
ResultOf(id) == results[CHOOSE j \in 1..Len(results) : results[j].session_id = id]

\* C12: on a forced run no session is taken from the cache, whatever its cached
\* size; each successful extraction makes the session's cache entry equal to
\* the new extraction in all five fields.
C12_ForcedReplacesEntry ==
    force =>
        \A k \in 1..Len(attempts) :
            /\ attempts[k].how # "cached"
            /\ attempts[k].how = "extracted" =>
                LET id == attempts[k].id
                    x == Unwrap(cache[id])
                IN  /\ IsSome(cache[id])
                    /\ x = ResultOf(id)
                    /\ x.session_id = id /\ x.extracted_at = pass
                    /\ x.file_size_bytes = SessionOf(id).size_bytes
                    /\ << x.has_knowledge, x.content >> \in ExtractionOutcomes

\* a forced run returned Ok having extracted a session whose cached size
\* equalled its file size
C12_Witness ==
    /\ force /\ dpc = "ok"
    /\ \E k \in 1..Len(attempts) :
        /\ attempts[k].how = "extracted"
        /\ IsSome(cache0[attempts[k].id])
        /\ Unwrap(cache0[attempts[k].id]).file_size_bytes = SessionOf(attempts[k].id).size_bytes
        /\ cacheFile[attempts[k].id] = Some(ResultOf(attempts[k].id))

\* C13: needs_extraction is true without an entry, true with an entry of a
\* different size (larger or smaller), false exactly with an entry of equal size.
C13_NeedsExtraction ==
    \A c \in {cache, cache0, cacheFile} : \A i \in 1..Len(sessions) :
        LET s == sessions[i]
            e == c[s.session_id]
        IN  /\ ~IsSome(e) => needs_extraction(s, c)
            /\ (IsSome(e) /\ Unwrap(e).file_size_bytes > s.size_bytes) => needs_extraction(s, c)
            /\ (IsSome(e) /\ Unwrap(e).file_size_bytes < s.size_bytes) => needs_extraction(s, c)
            /\ (IsSome(e) /\ Unwrap(e).file_size_bytes = s.size_bytes) => ~needs_extraction(s, c)

\* a non-forced run extracted a session whose transcript is smaller than the
\* cached size, and took another from the cache
C13_Witness ==
    /\ ~force
    /\ \E k \in 1..Len(attempts) :
        /\ attempts[k].how = "extracted" /\ IsSome(cache0[attempts[k].id])
        /\ Unwrap(cache0[attempts[k].id]).file_size_bytes > SessionOf(attempts[k].id).size_bytes
    /\ \E k \in 1..Len(attempts) : attempts[k].how = "cached"

(***************************************************************************)
(* Part E  the two selections of reader.rs applied to any parsed           *)
(*         transcript, cursor and session filter, as extract.rs 190-217    *)
(*         applies them                                                    *)
(***************************************************************************)
MaxSelLen == 2       \* records in the parsed transcript

\* timestamps T0, T0+5min, T0+10min
SelTimes == {0, CARRYOVER_WINDOW_MINUTES, 2 * CARRYOVER_WINDOW_MINUTES}

\* every variant carries an optional session id and an optional timestamp
SelShapes ==
    {Entry(k, sid, "ok", t, FALSE) :
        k \in {"user", "summary", "unknown"}, sid \in RunSessions, t \in SelTimes}
    \cup {Entry(k, sid, tk, 0, FALSE) :
        k \in {"user", "summary", "unknown"}, sid \in RunSessions, tk \in {"none", "bad"}}

SelTranscripts == UNION {[1..n -> SelShapes] : n \in 0..MaxSelLen}
SelCursors == {None} \cup {Some(t) : t \in SelTimes}

VARIABLES
    selEntries,   \* the parsed transcript
    selCursor,    \* last_extracted
    selFilter,    \* the session_id argument
    selCarry,     \* the carry-over slice (positions)
    selNew,       \* the new slice (positions)
    selPc         \* "start", "carried", "done"

varsE == << selEntries, selCursor, selFilter, selCarry, selNew, selPc >>

InitEWith(entries, cursor, filter) ==
    /\ selEntries = entries /\ selCursor = cursor /\ selFilter = filter
    /\ selCarry = << >> /\ selNew = << >> /\ selPc = "start"

InitE == \E entries \in SelTranscripts, cursor \in SelCursors, filter \in RunSessions :
            InitEWith(entries, cursor, filter)
IdleE == InitEWith(<< >>, None, None)

\* extract.rs 190-214: the window before the cursor, when there is a cursor
SelectCarryover ==
    /\ selPc = "start"
    /\ selCarry' = IF IsSome(selCursor)
                   THEN GetMessagesInWindow(selEntries,
                            Unwrap(selCursor) - CARRYOVER_WINDOW_MINUTES,
                            Unwrap(selCursor), selFilter)
                   ELSE << >>
    /\ selPc' = "carried"
    /\ UNCHANGED << selEntries, selCursor, selFilter, selNew >>

\* extract.rs 217: get_messages_since(&entries, last_extracted, session_id)
SelectSince ==
    /\ selPc = "carried"
    /\ selNew' = GetMessagesSince(selEntries, selCursor, selFilter)
    /\ selPc' = "done"
    /\ UNCHANGED << selEntries, selCursor, selFilter, selCarry >>

\* ------------------------------------------------------- claims of part E
Range(seq) == {seq[k] : k \in 1..Len(seq)}
Ascending(seq) == \A j, k \in 1..Len(seq) : j < k => seq[j] < seq[k]
SelPositions == 1..Len(selEntries)
Stamped(i) == IsSome(ParsedTimestamp(selEntries[i]))
Stamp(i) == Unwrap(ParsedTimestamp(selEntries[i]))

\* C14 as stated: with a cursor and a session filter, the new slice is exactly
\* the messages of the session stamped after the cursor, plus every summary of
\* the transcript whatever its timestamp or session tag.
C14_SinceMessagesPlusAllSummaries ==
    (selPc = "done" /\ IsSome(selCursor) /\ IsSome(selFilter)) =>
        Range(selNew) =
            {i \in SelPositions :
                \/ is_summary(selEntries[i])
                \/ /\ is_message(selEntries[i]) /\ session_id(selEntries[i]) = selFilter
                   /\ Stamped(i) /\ Stamp(i) > Unwrap(selCursor)}

\* C14 amended: with a cursor and a session filter, the new slice is exactly
\* the message and summary records whose session id equals the filter and
\* whose timestamp is after the cursor or is absent or unparsable; a summary
\* of another session, without session tag, or stamped at or before the
\* cursor is not returned.
C14_SinceFiltersSummariesToo ==
    (selPc = "done" /\ IsSome(selCursor) /\ IsSome(selFilter)) =>
        /\ Range(selNew) =
            {i \in SelPositions :
                /\ is_message(selEntries[i]) \/ is_summary(selEntries[i])
                /\ session_id(selEntries[i]) = selFilter
                /\ Stamped(i) => Stamp(i) > Unwrap(selCursor)}
        /\ Ascending(selNew)

\* a summary without session tag was left out and a message without timestamp
\* was returned
C14_Witness ==
    /\ selPc = "done" /\ IsSome(selCursor) /\ IsSome(selFilter)
    /\ \E i \in SelPositions :
        is_summary(selEntries[i]) /\ session_id(selEntries[i]) = None /\ i \notin Range(selNew)
    /\ \E i \in Range(selNew) : is_message(selEntries[i]) /\ ~Stamped(i)

\* C15: with a session filter every record of both slices has that session
\* id; without one the session of a record plays no part in either selection;
\* both slices are in transcript order.
C15_SessionFilter ==
    selPc = "done" =>
        /\ IsSome(selFilter) =>
            \A i \in Range(selNew) \cup Range(selCarry) : session_id(selEntries[i]) = selFilter
        /\ ~IsSome(selFilter) =>
            /\ Range(selNew) =
                {i \in SelPositions :
                    /\ is_message(selEntries[i]) \/ is_summary(selEntries[i])
                    /\ (Stamped(i) /\ IsSome(selCursor)) => Stamp(i) > Unwrap(selCursor)}
            /\ IsSome(selCursor) =>
                Range(selCarry) =
                    {i \in SelPositions :
                        /\ is_message(selEntries[i]) \/ is_summary(selEntries[i])
                        /\ Stamped(i)
                        /\ Stamp(i) >= Unwrap(selCursor) - CARRYOVER_WINDOW_MINUTES
                        /\ Stamp(i) < Unwrap(selCursor)}
        /\ Ascending(selNew) /\ Ascending(selCarry)
        /\ Len(selNew) = Cardinality(Range(selNew))

\* with filter s1, a message that is not of s1 and would pass the cursor was
\* left out of the new slice and a record of s1 was returned
C15_Witness ==
    /\ selPc = "done" /\ selFilter = Some("s1") /\ Len(selNew) = 1
    /\ \E i, j \in SelPositions :
        /\ selEntries[i].sid # Some("s1") /\ is_message(selEntries[i])
        /\ (Stamped(i) /\ IsSome(selCursor)) => Stamp(i) > Unwrap(selCursor)
        /\ selEntries[j].sid = Some("s1") /\ j \in Range(selNew)

\* the records that pass the content and the session test
Selectable(i) ==
    /\ is_message(selEntries[i]) \/ is_summary(selEntries[i])
    /\ session_filter(selEntries[i], selFilter)

\* C16: for a cursor c the carry-over slice is exactly the selectable records
\* with c - 5min <= timestamp < c, the new slice holds of the stamped
\* selectable records exactly those with timestamp > c, and no stamped record
\* is in both; with messages at T0 and T0+10min and cursor T0+5min the new
\* slice is the second message and the carry-over slice the first.
C16_WindowAndSinceDisjoint ==
    (selPc = "done" /\ IsSome(selCursor)) =>
        LET c == Unwrap(selCursor)
        IN  /\ Range(selCarry) =
                {i \in SelPositions :
                    /\ Selectable(i) /\ Stamped(i)
                    /\ Stamp(i) >= c - CARRYOVER_WINDOW_MINUTES /\ Stamp(i) < c}
            /\ {i \in Range(selNew) : Stamped(i)} =
                {i \in SelPositions : Selectable(i) /\ Stamped(i) /\ Stamp(i) > c}
            /\ \A i \in Range(selNew) \cap Range(selCarry) : ~Stamped(i)
            /\ ( /\ Len(selEntries) = 2 /\ c = CARRYOVER_WINDOW_MINUTES
                 /\ \A i \in SelPositions : is_message(selEntries[i]) /\ Selectable(i)
                 /\ Stamped(1) /\ Stamp(1) = 0
                 /\ Stamped(2) /\ Stamp(2) = 2 * CARRYOVER_WINDOW_MINUTES )
               => (selNew = << 2 >> /\ selCarry = << 1 >>)

\* messages at T0 and T0+10min, cursor at T0+5min, both slices computed
C16_Witness ==
    /\ selPc = "done" /\ selCursor = Some(CARRYOVER_WINDOW_MINUTES)
    /\ Len(selEntries) = 2
    /\ \A i \in SelPositions : is_message(selEntries[i]) /\ Selectable(i) /\ Stamped(i)
    /\ Stamp(1) = 0 /\ Stamp(2) = 2 * CARRYOVER_WINDOW_MINUTES
    /\ selNew = << 2 >> /\ selCarry = << 1 >>

\* the message and summary records of the matching session whose timestamp
\* is absent or is not RFC 3339
Unstamped ==
    {i \in SelPositions :
        /\ selEntries[i].kind \in {"user", "assistant", "summary"}
        /\ IsSome(selFilter) => selEntries[i].sid = selFilter
        /\ selEntries[i].tk \in {"none", "bad"}}

\* C37: a message or summary record of the matching session whose timestamp
\* is absent or invalid is in the slice get_messages_since returns, for the
\* run's cursor and for every other cursor, and is in no slice
\* get_messages_in_window returns, for the run's window and for every other.
C37_UnstampedAlwaysNewNeverCarried ==
    \A i \in Unstamped :
        /\ selPc = "done" => (i \in Range(selNew) /\ i \notin Range(selCarry))
        /\ \A c \in SelCursors : i \in Range(GetMessagesSince(selEntries, c, selFilter))
        /\ \A start, end \in SelTimes \cup {0 - CARRYOVER_WINDOW_MINUTES} :
            i \notin Range(GetMessagesInWindow(selEntries, start, end, selFilter))

\* an incremental run with a cursor after the epoch has selected a record
\* with an invalid timestamp and one with none, and carried neither over
C37_Witness ==
    /\ selPc = "done" /\ selCursor = Some(CARRYOVER_WINDOW_MINUTES)
    /\ \E i, j \in Unstamped :
        /\ selEntries[i].tk = "bad" /\ selEntries[j].tk = "none"
        /\ selNew = << i, j >> /\ selCarry = << >>


(***************************************************************************)
(* Part F  parsing a JSONL file: transcript/reader.rs read_transcript,     *)
(*         codex/reader.rs read_codex_session (the same loop)              *)
(***************************************************************************)
MaxLines == 3        \* lines of the file

\* what a line holds: only whitespace; text that decodes to a record; text
\* that does not decode; bytes that are not valid UTF-8
LineKinds == {"blank", "json", "garbage", "bytes"}
JsonlFiles == UNION {[1..n -> LineKinds] : n \in 0..MaxLines}
Readers == {"read_transcript", "read_codex_session"}

VARIABLES
    prReader,     \* which of the two functions runs
    prLines,      \* the file's lines
    prOpenable,   \* whether File::open succeeds
    prPc,         \* "start", "loop", then "ok" or "err" (what was returned)
    prI,          \* number of the next line
    prEntries,    \* the records pushed so far (each named by its line number)
    prWarnings    \* the line numbers warned about so far

varsF == << prReader, prLines, prOpenable, prPc, prI, prEntries, prWarnings >>

InitFWith(r, lines, openable) ==
    /\ prReader = r /\ prLines = lines /\ prOpenable = openable
    /\ prPc = "start" /\ prI = 1 /\ prEntries = << >> /\ prWarnings = << >>

InitF == \E r \in Readers, lines \in JsonlFiles, openable \in BOOLEAN : InitFWith(r, lines, openable)
IdleF == InitFWith("read_transcript", << >>, TRUE)

\* File::open(path)?
ParseOpen ==
    /\ prPc = "start"
    /\ prPc' = IF prOpenable THEN "loop" ELSE "err"
    /\ UNCHANGED << prReader, prLines, prOpenable, prI, prEntries, prWarnings >>

\* one turn of the loop over reader.lines(): `line_result?` returns the error
\* of a line that is not valid UTF-8; a blank line is skipped; a line that
\* decodes is pushed; any other line is warned about
ParseLine ==
    /\ prPc = "loop" /\ prI <= Len(prLines)
    /\ LET k == prLines[prI]
       IN  /\ prPc' = IF k = "bytes" THEN "err" ELSE "loop"
           /\ prEntries' = IF k = "json" THEN Append(prEntries, prI) ELSE prEntries
           /\ prWarnings' = IF k = "garbage" THEN Append(prWarnings, prI) ELSE prWarnings
    /\ prI' = prI + 1
    /\ UNCHANGED << prReader, prLines, prOpenable >>

\* Ok(entries)
ParseEnd ==
    /\ prPc = "loop" /\ prI > Len(prLines)
    /\ prPc' = "ok"
    /\ UNCHANGED << prReader, prLines, prOpenable, prI, prEntries, prWarnings >>

\* ------------------------------------------------------- claims of part F
LineNumbers == [i \in 1..Len(prLines) |-> i]
Decodable == SelectSeq(LineNumbers, LAMBDA i : prLines[i] = "json")
Malformed == SelectSeq(LineNumbers, LAMBDA i : prLines[i] \in {"garbage", "bytes"})
NonBlank == SelectSeq(LineNumbers, LAMBDA i : prLines[i] # "blank")

\* C17: once the file is open, parse returns the records of the decodable
\* lines in line order, N - M of them for N non-blank lines of which M are
\* malformed, with M warnings, wherever the malformed lines stand.
C17_OneRecordPerDecodableLine ==
    (prOpenable /\ prPc \in {"ok", "err"}) =>
        /\ prPc = "ok"
        /\ prEntries = Decodable
        /\ Len(prEntries) = Len(NonBlank) - Len(Malformed)
        /\ Len(prWarnings) = Len(Malformed)

\* C18: once the file is open, no line makes parse return an error; the only
\* error outcome is the failure to open.
C18_ErrorOnlyFromOpen ==
    prPc = "err" => ~prOpenable

(***************************************************************************)
(* Part G  the marker protocol: llm.rs parse_marker_response,              *)
(*         strip_markdown_prefix                                           *)
(* A text is a sequence of tokens: " " and "\n" are whitespace, "#", ">",  *)
(* "*" the markdown characters, a marker token is a marker name followed   *)
(* by ':' in some letter case, the others are words.                       *)
(***************************************************************************)
MaxRespLines == 2    \* lines of the oracle's response

\* the response lines the oracle may send
RespPrefixes == { << >>, << " ", "#", "#", " " >>, << ">", " ", "*" >> }
RespValues == { << " ", "YES" >>, << "yes", " " >>, << " ", "True" >>, << " ", "NO" >>,
                << " ", "YES", " ", "x" >> }
RespBodies ==
    {<< n >> \o v : n \in {"HAS_KNOWLEDGE:", "has_knowledge:", "HAS_RELEVANT:"}, v \in RespValues}
    \cup { << "x" >>, << >>, << "x", " ", "HAS_KNOWLEDGE:", " ", "YES" >> }
RespLines == {p \o b : p \in RespPrefixes, b \in RespBodies}
RespTexts == {Join(ls) : ls \in UNION {[1..n -> RespLines] : n \in 0..MaxRespLines}}

VARIABLES
    mrText,       \* the response text
    mrMarker,     \* the marker name
    mrResult,     \* None, or Some(the MarkerResponse returned)
    mrPc          \* "start", "done"

varsG == << mrText, mrMarker, mrResult, mrPc >>

InitGWith(text, marker) ==
    /\ mrText = text /\ mrMarker = marker /\ mrResult = None /\ mrPc = "start"
InitG == \E text \in RespTexts, marker \in MarkerNames : InitGWith(text, marker)
IdleG == InitGWith(<< >>, "HAS_KNOWLEDGE")

\* the call
ParseMarker ==
    /\ mrPc = "start"
    /\ mrResult' = Some(parse_marker_response(mrText, mrMarker))
    /\ mrPc' = "done"
    /\ UNCHANGED << mrText, mrMarker >>

\* ------------------------------------------------------- claims of part G
MrLines == Lines(mrText)
Stripped(i) == strip_markdown_prefix(MrLines[i])
\* line i, stripped, starts with the marker name and ':' spelled exactly
ExactMarkerLine(i) == Stripped(i) # << >> /\ Head(Stripped(i)) = MarkerPrefix(mrMarker)
\* line i, stripped, starts with the marker name and ':' in any letter case
AnyCaseMarkerLine(i) == Stripped(i) # << >> /\ ToUpper(Head(Stripped(i))) = MarkerPrefix(mrMarker)
Affirmative(i) == ToUpperSeq(Trim(Tail(Stripped(i)))) \in {<< "YES" >>, << "TRUE" >>}
Following(i) == Trim(Join(SubSeq(MrLines, i + 1, Len(MrLines))))
First(P(_)) == CHOOSE i \in 1..Len(MrLines) : P(i) /\ \A j \in 1..(i - 1) : ~P(j)

\* C19: the call always returns; the first line that, stripped, starts with
\* "NAME:" decides: value YES or TRUE in any letter case gives positive with
\* the following lines joined and trimmed, any other value gives negative with
\* empty content whatever comes later; no such line gives negative with empty
\* content; a negative result has empty content.
C19_FirstMarkerLineDecides ==
    mrPc = "done" =>
        /\ IsSome(mrResult)
        /\ LET r == Unwrap(mrResult)
           IN  /\ IF \E i \in 1..Len(MrLines) : ExactMarkerLine(i)
                  THEN LET i == First(ExactMarkerLine)
                       IN  IF Affirmative(i)
                           THEN r = MarkerResponse(TRUE, Following(i))
                           ELSE r = MarkerResponse(FALSE, << >>)
                  ELSE r = MarkerResponse(FALSE, << >>)
               /\ ~r.is_positive => r.content = << >>

\* a marker line with value NO came before one with value YES: negative
C19_Witness ==
    /\ mrPc = "done" /\ Len(MrLines) = 2
    /\ ExactMarkerLine(1) /\ ~Affirmative(1)
    /\ ExactMarkerLine(2) /\ Affirmative(2)
    /\ mrResult = Some(MarkerResponse(FALSE, << >>))

\* C20 as stated: a line spelling the marker name in another letter case is a
\* marker line like the upper-case form: the first such line decides.
C20_MarkerNameAnyCase ==
    (mrPc = "done" /\ \E i \in 1..Len(MrLines) : AnyCaseMarkerLine(i)) =>
        LET i == First(AnyCaseMarkerLine)
        IN  Unwrap(mrResult) =
                IF Affirmative(i) THEN MarkerResponse(TRUE, Following(i))
                ELSE MarkerResponse(FALSE, << >>)

\* C20 amended: only the value is read case-insensitively; the marker name
\* must be spelled exactly as passed: a line spelling it in another letter
\* case is passed over like any other line, and a response with no exactly
\* spelled marker line is negative with empty content.
C20_MarkerNameExactCase ==
    mrPc = "done" =>
        LET r == Unwrap(mrResult)
        IN  /\ r.is_positive =>
                \E i \in 1..Len(MrLines) :
                    ExactMarkerLine(i) /\ Affirmative(i) /\ r.content = Following(i)
            /\ (\A i \in 1..Len(MrLines) : ~ExactMarkerLine(i)) => r = MarkerResponse(FALSE, << >>)
            /\ (Len(MrLines) >= 1 /\ ExactMarkerLine(1) /\ Affirmative(1)) => r.is_positive

\* "has_knowledge: yes" followed by a line of content, marker HAS_KNOWLEDGE:
\* the result is negative
C20_Witness ==
    /\ mrPc = "done" /\ mrMarker = "HAS_KNOWLEDGE" /\ Len(MrLines) = 2
    /\ AnyCaseMarkerLine(1) /\ ~ExactMarkerLine(1) /\ Affirmative(1)
    /\ MrLines[2] = << "x" >>
    /\ mrResult = Some(MarkerResponse(FALSE, << >>))

(***************************************************************************)
(* Part H  hook invocations: main.rs 96-127, compile.rs run_hook,          *)
(*         extract.rs run_hook, find_transcript, extract_from_transcript   *)
(* in an initialized project                                               *)
(***************************************************************************)
HookCommands == {"compile", "extract"}

\* what the oracle subprocess may do during a hook
HookOutputs ==
    { ClaudeOutput(TRUE, TRUE, TRUE, JsonResult(<< "HAS_RELEVANT:", " ", "YES", "\n", "ctx" >>)),
      ClaudeOutput(TRUE, TRUE, TRUE, JsonResult(<< "HAS_KNOWLEDGE:", " ", "YES", "\n", "docA" >>)),
      ClaudeOutput(TRUE, TRUE, TRUE, JsonResult(<< "HAS_RELEVANT:", " ", "NO" >>)),
      ClaudeOutput(FALSE, FALSE, FALSE, NotJson),
      ClaudeOutput(TRUE, TRUE, FALSE, NotJson),
      ClaudeOutput(TRUE, TRUE, TRUE, JsonNoResult) }

\* the project and its surroundings when the hook fires
HookWorlds ==
    [cmd : HookCommands,
     enabled : BOOLEAN,            \* the operation is not paused in the config
     stateEmpty : BOOLEAN,         \* state.md is missing or blank
     hasDive : BOOLEAN,            \* dive_context.md holds text
     transcriptFound : BOOLEAN,    \* find_transcript(None) finds a file
     transcriptReadable : BOOLEAN, \* read_transcript returns Ok
     hasMessages : BOOLEAN,        \* the new slice renders to text
     out : HookOutputs]

VARIABLES
    hkWorld,      \* the world of this invocation
    hkPc,         \* "main", "compile_hook", "extract_hook", "extract", "return", "exit"
    hkResult,     \* the Result the command returned
    hkStdout,     \* lines printed to standard output
    hkStderr,     \* lines printed to standard error
    hkExit        \* "" while running, then "success" or "failure"

varsH == << hkWorld, hkPc, hkResult, hkStdout, hkStderr, hkExit >>

InitHWith(w) ==
    /\ hkWorld = w /\ hkPc = "main" /\ hkResult = Ok("")
    /\ hkStdout = << >> /\ hkStderr = << >> /\ hkExit = ""
InitH == \E w \in HookWorlds : InitHWith(w)
IdleH ==
    InitHWith([cmd |-> "compile", enabled |-> FALSE, stateEmpty |-> TRUE, hasDive |-> FALSE,
               transcriptFound |-> FALSE, transcriptReadable |-> FALSE, hasMessages |-> FALSE,
               out |-> ClaudeOutput(FALSE, FALSE, FALSE, NotJson)])

\* main.rs 115-118: Commands::Hook
HookDispatch ==
    /\ hkPc = "main"
    /\ hkPc' = IF hkWorld.cmd = "compile" THEN "compile_hook" ELSE "extract_hook"
    /\ UNCHANGED << hkWorld, hkResult, hkStdout, hkStderr, hkExit >>

\* compile.rs 187-230
compile_with_llm(o) ==
    LET result_str == call_claude(o)
    IN  IF IsOk(result_str)
        THEN Ok(parse_marker_response(result_str[2], "HAS_RELEVANT"))
        ELSE result_str

\* the JSON line of a HookResponse
HookResponse(additional_context) == << "HookResponse", additional_context >>

\* compile.rs 48-161: run_hook of an initialized project
CompileRunHook ==
    /\ hkPc = "compile_hook"
    /\ LET w == hkWorld
           llm == compile_with_llm(w.out)
           \* lines 115-125: an Err of the oracle call becomes the empty result
           compile_result == IF IsOk(llm) THEN llm[2] ELSE MarkerResponse(FALSE, << >>)
           final_content ==
               IF w.hasDive
               THEN IF compile_result.is_positive
                    THEN << "dive", "\n" >> \o compile_result.content
                    ELSE << "dive" >>
               ELSE compile_result.content
       IN  hkStdout' =
             IF ~w.enabled THEN << HookResponse(None) >>
             ELSE IF w.stateEmpty /\ ~w.hasDive THEN << HookResponse(None) >>
             ELSE IF w.stateEmpty /\ w.hasDive THEN << HookResponse(Some(<< "dive" >>)) >>
             ELSE IF Trim(final_content) # << >>
                  THEN << HookResponse(Some(final_content)) >>
                  ELSE << HookResponse(None) >>
    /\ hkResult' = Ok("")
    /\ hkPc' = "return"
    /\ UNCHANGED << hkWorld, hkStderr, hkExit >>

\* extract.rs 68-107 with no explicit path
find_transcript(w) ==
    IF w.transcriptFound THEN Ok("transcript.jsonl")
    ELSE Err("Could not find transcript. Use --transcript <path> to specify.")

\* extract.rs 51-65: paused returns Ok; find_transcript(None)? returns its Err
ExtractRunHook ==
    /\ hkPc = "extract_hook"
    /\ IF ~hkWorld.enabled
       THEN hkResult' = Ok("") /\ hkPc' = "return"
       ELSE IF IsOk(find_transcript(hkWorld))
            THEN hkResult' = hkResult /\ hkPc' = "extract"
            ELSE hkResult' = find_transcript(hkWorld) /\ hkPc' = "return"
    /\ UNCHANGED << hkWorld, hkStdout, hkStderr, hkExit >>

\* extract.rs 157-285: read_transcript(..)? , the early returns, the oracle call
\* with `?`, the println! of the outcome
ExtractFromTranscript ==
    /\ hkPc = "extract"
    /\ LET w == hkWorld
           extraction == call_generative_extraction(w.out)
       IN  IF ~w.transcriptReadable
           THEN hkResult' = Err("Failed to read transcript") /\ hkStdout' = hkStdout
           ELSE IF ~w.hasMessages
           THEN hkResult' = Ok("") /\ hkStdout' = << "No new transcript content to extract from." >>
           ELSE IF ~IsOk(extraction)
           THEN hkResult' = extraction /\ hkStdout' = hkStdout
           ELSE /\ hkResult' = Ok("")
                /\ hkStdout' = IF extraction[2].is_positive THEN << "State updated" >>
                               ELSE << "No new knowledge to extract" >>
    /\ hkPc' = "return"
    /\ UNCHANGED << hkWorld, hkStderr, hkExit >>

\* main.rs 120-126
HookExit ==
    /\ hkPc = "return"
    /\ IF IsOk(hkResult)
       THEN hkExit' = "success" /\ hkStderr' = hkStderr
       ELSE hkExit' = "failure" /\ hkStderr' = Append(hkStderr, << "Error: ", hkResult[2] >>)
    /\ hkPc' = "exit"
    /\ UNCHANGED << hkWorld, hkResult, hkStdout >>

\* ------------------------------------------------------- claims of part H
\* C22: a hook invocation (hook compile, hook extract) in an initialized
\* project whose oracle call fails, or whose transcript cannot be found or
\* read, ends with success status and without error output.
C22_HookNeverFails ==
    hkPc = "exit" => (hkExit = "success" /\ hkStderr = << >>)

(***************************************************************************)
(* Part I  session discovery: session.rs discover_sessions,                *)
(*         discover_sessions_in_dir; codex/session.rs discover_sessions,   *)
(*         read_dir_sorted; distill.rs discover_sessions_by_project_filter *)
(***************************************************************************)
MaxDirEntries == 2   \* entries of one directory
MaxDirs == 2         \* day directories of the Codex tree, matching projects

MTimes == {1, 2}

\* one entry of a directory: whether read_dir yields it without error, whether
\* its name is that of a session file, whether its metadata and modification
\* time can be read, and the modification time
DirEntry(ok, session, meta, mtime) ==
    [ok |-> ok, session |-> session, meta |-> meta, mtime |-> mtime]
DirEntryShapes ==
    { DirEntry(FALSE, TRUE, TRUE, 1), DirEntry(TRUE, FALSE, TRUE, 1),
      DirEntry(TRUE, TRUE, FALSE, 1) }
    \cup { DirEntry(TRUE, TRUE, TRUE, t) : t \in MTimes }

\* a directory: "missing", "unreadable" (read_dir fails), "notdir" or "ok"
Dir(state, entries) == [state |-> state, entries |-> entries]
EntryLists == UNION {[1..n -> DirEntryShapes] : n \in 0..MaxDirEntries}
ReadableDirs == {Dir("ok", es) : es \in EntryLists}
Dirs(states) == ReadableDirs \cup {Dir(st, << >>) : st \in states}

\* the Codex tree ~/.codex/sessions/YYYY/MM/DD: one year and one month, each
\* possibly unreadable or not a directory, and the day directories
CodexRoots ==
    [state : {"missing", "unreadable", "ok"},
     year : {"ok", "unreadable", "notdir"},
     month : {"ok", "unreadable", "notdir"},
     days : UNION {[1..n -> Dirs({"unreadable", "notdir"})] : n \in 1..MaxDirs}]

\* SessionInfo / CodexSessionInfo of entry k of directory d
DiscoveredSession(d, k, mtime) == [session_id |-> << d, k >>, modified_at |-> mtime]

\* the filter_map over the entries of one directory (session.rs 63-92,
\* codex/session.rs 73-95): entries in error, other files and files whose
\* metadata cannot be read are passed over
RECURSIVE SessionsOfEntries(_, _, _)
SessionsOfEntries(entries, d, k) ==
    IF k > Len(entries) THEN << >>
    ELSE LET e == entries[k]
         IN  (IF e.ok /\ e.session /\ e.meta
              THEN << DiscoveredSession(d, k, e.mtime) >> ELSE << >>)
             \o SessionsOfEntries(entries, d, k + 1)

\* a sort that puts the oldest first
RECURSIVE SortOldestFirst(_)
SortOldestFirst(s) ==
    IF s = << >> THEN << >>
    ELSE LET rest == SortOldestFirst(Tail(s))
             front == SelectSeq(rest, LAMBDA x : x.modified_at < Head(s).modified_at)
             back == SelectSeq(rest, LAMBDA x : x.modified_at >= Head(s).modified_at)
         IN  front \o << Head(s) >> \o back

\* sessions.sort_by(|a, b| b.modified_at.cmp(&a.modified_at)): stable
RECURSIVE SortNewestFirst(_)
SortNewestFirst(s) ==
    IF s = << >> THEN << >>
    ELSE LET rest == SortNewestFirst(Tail(s))
             front == SelectSeq(rest, LAMBDA x : x.modified_at > Head(s).modified_at)
             back == SelectSeq(rest, LAMBDA x : x.modified_at <= Head(s).modified_at)
         IN  front \o << Head(s) >> \o back

\* session.rs 59-98
discover_sessions_in_dir(dir, d) ==
    IF dir.state # "ok" THEN Err("Failed to read project directory")
    ELSE Ok(SortNewestFirst(SessionsOfEntries(dir.entries, d, 1)))

\* session.rs 52-57: get_project_dir is None when the directory does not exist
discover_sessions(dir) ==
    IF dir.state = "missing" THEN Err("No Claude project directory found")
    ELSE discover_sessions_in_dir(dir, 1)

\* codex/session.rs 66-97: the loop over the day directories; read_dir_sorted(..)?
RECURSIVE WalkDays(_, _)
WalkDays(days, d) ==
    IF d > Len(days) THEN Ok(<< >>)
    ELSE IF days[d].state = "notdir" THEN WalkDays(days, d + 1)
    ELSE IF days[d].state # "ok" THEN Err("Failed to read directory")
    ELSE LET rest == WalkDays(days, d + 1)
         IN  IF IsOk(rest)
             THEN Ok(SessionsOfEntries(days[d].entries, d, 1) \o rest[2])
             ELSE rest

\* codex/session.rs 43-104
codex_discover_sessions(root) ==
    IF root.state = "missing" THEN Ok(<< >>)
    ELSE IF root.state = "unreadable" THEN Err("Failed to read directory")
    ELSE IF root.year = "notdir" THEN Ok(<< >>)
    ELSE IF root.year = "unreadable" THEN Err("Failed to read directory")
    ELSE IF root.month = "notdir" THEN Ok(<< >>)
    ELSE IF root.month = "unreadable" THEN Err("Failed to read directory")
    ELSE LET walked == WalkDays(root.days, 1)
         IN  IF IsOk(walked) THEN Ok(SortNewestFirst(walked[2])) ELSE walked

\* distill.rs 667-671: discover_sessions_in_dir(..)? of each matching project
RECURSIVE CollectProjects(_, _)
CollectProjects(projects, d) ==
    IF d > Len(projects) THEN Ok(<< >>)
    ELSE LET found == discover_sessions_in_dir(projects[d], d)
             rest == CollectProjects(projects, d + 1)
         IN  IF ~IsOk(found) THEN found
             ELSE IF ~IsOk(rest) THEN rest
             ELSE Ok(found[2] \o rest[2])

\* distill.rs 645-677 with a non-empty list of matching projects
discover_sessions_by_project_filter(projects) ==
    LET all_sessions == CollectProjects(projects, 1)
    IN  IF IsOk(all_sessions) THEN Ok(SortNewestFirst(all_sessions[2])) ELSE all_sessions

\* the three discoveries and what they are run on
Discoveries ==
    {<< "claude", dir >> : dir \in Dirs({"missing", "unreadable"})}
    \cup {<< "codex", root >> : root \in CodexRoots}
    \cup {<< "filter", ps >> : ps \in UNION {[1..n -> Dirs({"unreadable"})] : n \in 1..MaxDirs}}

VARIABLES
    dsWhat,       \* the discovery and its directory tree
    dsResult,     \* None, or Some(the Result returned)
    dsPc          \* "start", "done"

varsI == << dsWhat, dsResult, dsPc >>

InitIWith(what) == dsWhat = what /\ dsResult = None /\ dsPc = "start"
InitI == \E what \in Discoveries : InitIWith(what)
IdleI == InitIWith(<< "claude", Dir("missing", << >>) >>)

DiscoverClaude ==
    /\ dsPc = "start" /\ dsWhat[1] = "claude"
    /\ dsResult' = Some(discover_sessions(dsWhat[2]))
    /\ dsPc' = "done"
    /\ UNCHANGED dsWhat

DiscoverCodex ==
    /\ dsPc = "start" /\ dsWhat[1] = "codex"
    /\ dsResult' = Some(codex_discover_sessions(dsWhat[2]))
    /\ dsPc' = "done"
    /\ UNCHANGED dsWhat

DiscoverByProjectFilter ==
    /\ dsPc = "start" /\ dsWhat[1] = "filter"
    /\ dsResult' = Some(discover_sessions_by_project_filter(dsWhat[2]))
    /\ dsPc' = "done"
    /\ UNCHANGED dsWhat

\* ------------------------------------------------------- claims of part I
\* the directories of the tree whose entries are searched for session files
SearchedDirs ==
    IF dsWhat[1] = "claude" THEN << dsWhat[2] >>
    ELSE IF dsWhat[1] = "filter" THEN dsWhat[2]
    ELSE IF dsWhat[2].state = "ok" /\ dsWhat[2].year = "ok" /\ dsWhat[2].month = "ok"
         THEN dsWhat[2].days ELSE << >>
\* the sessions of every readable entry of every readable directory
ReadableSessions ==
    { DiscoveredSession(d, k, SearchedDirs[d].entries[k].mtime) :
        << d, k >> \in { x \in (1..Len(SearchedDirs)) \X (1..MaxDirEntries + 1) :
                           /\ SearchedDirs[x[1]].state = "ok"
                           /\ x[2] <= Len(SearchedDirs[x[1]].entries)
                           /\ SearchedDirs[x[1]].entries[x[2]].ok
                           /\ SearchedDirs[x[1]].entries[x[2]].session
                           /\ SearchedDirs[x[1]].entries[x[2]].meta } }
\* the project directory, or the sessions root, exists
RootExists == IF dsWhat[1] = "claude" THEN dsWhat[2].state # "missing"
              ELSE dsWhat[2].state # "missing"
RootReadable == dsWhat[2].state = "ok"

\* C25: both discoverers return the empty list, not an error, when the
\* project directory or the sessions root does not exist; when a
\* sub-directory or an entry cannot be read it is skipped and the sessions of
\* all other entries are returned.
C25_DiscoveryTolerant ==
    (dsPc = "done" /\ dsWhat[1] \in {"claude", "codex"}) =>
        LET r == Unwrap(dsResult)
        IN  /\ ~RootExists => r = Ok(<< >>)
            /\ RootReadable => (IsOk(r) /\ Range(r[2]) = ReadableSessions)

\* C26: every list of session descriptors handed to a consumer is ordered by
\* last-modified time, newest first: the result of discover_sessions_in_dir,
\* of the Codex discover_sessions and of the merge of several projects.
C26_NewestFirst ==
    (dsPc = "done" /\ IsOk(Unwrap(dsResult))) =>
        LET l == Unwrap(dsResult)[2]
        IN  /\ \A i, j \in 1..Len(l) : i < j => l[i].modified_at >= l[j].modified_at
            /\ Range(l) = ReadableSessions /\ Len(l) = Cardinality(ReadableSessions)

\* the merge of two projects: the older session was found first and is
\* returned second
C26_Witness ==
    /\ dsPc = "done" /\ dsWhat[1] = "filter" /\ IsOk(Unwrap(dsResult))
    /\ Len(Unwrap(dsResult)[2]) = 2
    /\ Unwrap(dsResult)[2][1].session_id[1] = 2
    /\ Unwrap(dsResult)[2][2].session_id[1] = 1
    /\ Unwrap(dsResult)[2][1].modified_at > Unwrap(dsResult)[2][2].modified_at

(***************************************************************************)
(* Part J  truncation of tool output: codex/reader.rs format_context       *)
(*         113-123, and the tool results of the Claude schema              *)
(* A text is the sequence of the byte lengths of its characters.  Its      *)
(* first element stands for a run of one-byte characters (at most          *)
(* TRUNCATE_BYTES of them, so that no cut falls strictly inside the run).  *)
(***************************************************************************)
MaxTail == 3         \* characters after the run of one-byte characters

TRUNCATE_BYTES == 500
CharWidths == {1, 2, 3, 4}
ToolTexts ==
    {<< pad >> \o tail :
        pad \in (TRUNCATE_BYTES - 5)..TRUNCATE_BYTES,
        tail \in UNION {[1..n -> CharWidths] : n \in 0..MaxTail}}

\* str::len: the length in bytes
RECURSIVE ByteLen(_)
ByteLen(text) == IF text = << >> THEN 0 ELSE Head(text) + ByteLen(Tail(text))

\* char_indices: the byte offset at which character k starts
CharStart(text, k) == ByteLen(SubSeq(text, 1, k - 1))
\* the offsets at which the text can be cut between two characters
CharBoundaries(text) == {ByteLen(SubSeq(text, 1, k)) : k \in 0..Len(text)}

SetMax(S) == CHOOSE x \in S : \A y \in S : y <= x

\* the rendered tool output: bytes kept of the text, truncation marker or not
Rendered(kept, marker) == [kept |-> kept, marker |-> marker]

\* codex/reader.rs 113-123: the end of the last character that starts before
\* byte 500
TruncateToolOutput(text) ==
    IF ByteLen(text) > TRUNCATE_BYTES
    THEN LET taken == {k \in 1..Len(text) : CharStart(text, k) < TRUNCATE_BYTES}
         IN  Rendered(IF taken = {} THEN 0
                      ELSE LET k == SetMax(taken) IN CharStart(text, k) + text[k],
                      TRUE)
    ELSE Rendered(ByteLen(text), FALSE)

\* the tool results of the Claude schema: cut at the nearest character
\* boundary at or before the threshold
TruncateToolResult(text) ==
    IF ByteLen(text) > TRUNCATE_BYTES
    THEN Rendered(SetMax({b \in CharBoundaries(text) : b <= TRUNCATE_BYTES}), TRUE)
    ELSE Rendered(ByteLen(text), FALSE)

VARIABLES
    trSchema,     \* "claude" or "codex"
    trText,       \* the tool result / tool output
    trOut,        \* None, or Some(what was rendered)
    trPc          \* "start", "done"

varsJ == << trSchema, trText, trOut, trPc >>

InitJWith(schema, text) ==
    trSchema = schema /\ trText = text /\ trOut = None /\ trPc = "start"
InitJ == \E schema \in {"claude", "codex"}, text \in ToolTexts : InitJWith(schema, text)
IdleJ == InitJWith("codex", << 1 >>)

\* codex/reader.rs 110-127
FormatCodexOutput ==
    /\ trPc = "start" /\ trSchema = "codex"
    /\ trOut' = Some(TruncateToolOutput(trText))
    /\ trPc' = "done"
    /\ UNCHANGED << trSchema, trText >>

\* transcript/reader.rs 160-169 over entry.tool_results()
FormatClaudeToolResult ==
    /\ trPc = "start" /\ trSchema = "claude"
    /\ trOut' = Some(TruncateToolResult(trText))
    /\ trPc' = "done"
    /\ UNCHANGED << trSchema, trText >>

\* ------------------------------------------------------- claims of part J
\* C27: a tool result or tool output longer than 500 bytes is rendered as its
\* longest prefix of whole characters of at most 500 bytes followed by the
\* truncation marker; a text of at most 500 bytes is rendered unchanged; for
\* both transcript schemas.
C27_TruncatedToAtMost500Bytes ==
    trPc = "done" =>
        LET out == Unwrap(trOut)
        IN  IF ByteLen(trText) > TRUNCATE_BYTES
            THEN /\ out.marker
                 /\ out.kept \in CharBoundaries(trText)
                 /\ out.kept <= TRUNCATE_BYTES
                 /\ \A b \in CharBoundaries(trText) : b <= TRUNCATE_BYTES => b <= out.kept
            ELSE out = Rendered(ByteLen(trText), FALSE)

(***************************************************************************)
(* Part K  stripping injected blocks: types.rs strip_xml_tags,             *)
(*         codex/reader.rs strip_environment_context                       *)
(* A text is a sequence of characters; a tag name is one character, so     *)
(* the open tag is <n> and the close tag </n>.                             *)
(***************************************************************************)
MaxPieces == 4       \* pieces a text is put together from

OpenTag(n) == << "<", n, ">" >>
CloseTag(n) == << "<", "/", n, ">" >>

\* the two strippers and the tag each removes: system-reminder,
\* environment_context
Strippers == {<< "strip_xml_tags", "r" >>, << "strip_environment_context", "e" >>}

\* whole tags, the two halves of an open tag, a letter, a blank
TextPieces(n) == {OpenTag(n), CloseTag(n), << "<" >>, << n, ">" >>, << "x" >>, << " " >>}
RECURSIVE Concat(_)
Concat(ps) == IF ps = << >> THEN << >> ELSE Head(ps) \o Concat(Tail(ps))
TaggedTexts(n) == {Concat(ps) : ps \in UNION {[1..k -> TextPieces(n)] : k \in 0..MaxPieces}}

\* text[start..].find(pat): the first position from start (1-based) at which
\* pat occurs, 0 when there is none
FindFrom(text, pat, start) ==
    LET hits == {i \in start..(Len(text) - Len(pat) + 1) :
                    SubSeq(text, i, i + Len(pat) - 1) = pat}
    IN  IF hits = {} THEN 0 ELSE CHOOSE i \in hits : \A j \in hits : i <= j

\* types.rs 25-42: the while loop and the final push_str
RECURSIVE StripLoop(_, _, _, _, _)
StripLoop(text, search_start, result, open_tag, close_tag) ==
    LET open_pos == FindFrom(text, open_tag, search_start)
    IN  IF open_pos = 0
        THEN result \o SubSeq(text, search_start, Len(text))
        ELSE LET kept == result \o SubSeq(text, search_start, open_pos - 1)
                 after_open == open_pos + Len(open_tag)
                 close_pos == FindFrom(text, close_tag, after_open)
             IN  IF close_pos = 0
                 THEN kept
                 ELSE StripLoop(text, close_pos + Len(close_tag), kept, open_tag, close_tag)

\* types.rs 24-43
strip_xml_tags(text, open_tag, close_tag) ==
    Trim(StripLoop(text, 1, << >>, open_tag, close_tag))

\* codex/reader.rs 134-158: the same loop with its own OPEN and CLOSE
strip_environment_context(text) == strip_xml_tags(text, OpenTag("e"), CloseTag("e"))

\* the stripper applied to a text
ApplyStripper(s, text) ==
    IF s[1] = "strip_environment_context" THEN strip_environment_context(text)
    ELSE strip_xml_tags(text, OpenTag(s[2]), CloseTag(s[2]))

VARIABLES
    stStripper,   \* which stripper
    stText,       \* the text
    stOnce,       \* None, or Some(the text stripped once)
    stTwice       \* None, or Some(the text stripped twice)

varsK == << stStripper, stText, stOnce, stTwice >>

InitKWith(s, text) ==
    stStripper = s /\ stText = text /\ stOnce = None /\ stTwice = None
InitK == \E s \in Strippers : \E text \in TaggedTexts(s[2]) : InitKWith(s, text)
IdleK == InitKWith(<< "strip_xml_tags", "r" >>, << >>)

StripOnce ==
    /\ stOnce = None
    /\ stOnce' = Some(ApplyStripper(stStripper, stText))
    /\ UNCHANGED << stStripper, stText, stTwice >>

StripAgain ==
    /\ IsSome(stOnce) /\ stTwice = None
    /\ stTwice' = Some(ApplyStripper(stStripper, Unwrap(stOnce)))
    /\ UNCHANGED << stStripper, stText, stOnce >>

\* ------------------------------------------------------- claims of part K
\* C28: stripping the tag pair twice gives the same result as stripping it
\* once, for every text, for strip_xml_tags and strip_environment_context.
C28_StripIdempotent ==
    IsSome(stTwice) => stTwice = stOnce

(***************************************************************************)
(* Part L  records of an unknown type: decoded by read_transcript, passed  *)
(*         to the two selections and to format_context                     *)
(***************************************************************************)
MaxRecLines == 3     \* lines of the transcript

KnownTypes == {"user", "assistant", "summary"}
\* the "type" field of a well-formed line
RecordTypes == KnownTypes \cup {"some-new-type"}

\* a well-formed line: its "type", "sessionId" and "timestamp" fields
JsonLine(type, sid, tk, t) == [type |-> type, sid |-> sid, tk |-> tk, t |-> t]
\* a line that is not JSON
GarbageLine == [type |-> "", sid |-> None, tk |-> "none", t |-> 0]
RecLineShapes ==
    {JsonLine(ty, Some("s1"), tk, 0) : ty \in RecordTypes, tk \in {"ok", "none"}}
    \cup {GarbageLine}
RecFiles == UNION {[1..n -> RecLineShapes] : n \in 0..MaxRecLines}

\* serde_json::from_str::<TranscriptEntry>(&line): the variant named by
\* "type", the data-less Unknown for any other type
DecodeLine(line) ==
    IF line = GarbageLine THEN Err("malformed")
    ELSE IF line.type \in KnownTypes
         THEN Ok(Entry(line.type, line.sid, line.tk, line.t, FALSE))
         ELSE Ok(Entry("unknown", None, "none", 0, FALSE))

\* reader.rs 17-35: the loop; the result is << entries, warnings >>
RECURSIVE ReadLines(_)
ReadLines(lines) ==
    IF lines = << >> THEN << << >>, 0 >>
    ELSE LET rest == ReadLines(Tail(lines))
             d == DecodeLine(Head(lines))
         IN  IF IsOk(d) THEN << << d[2] >> \o rest[1], rest[2] >>
                        ELSE << rest[1], rest[2] + 1 >>

\* format_context: the label and position of every block pushed to output
RECURSIVE format_context(_, _)
format_context(entries, idxs) ==
    IF idxs = << >> THEN << >>
    ELSE LET e == entries[Head(idxs)]
             block == IF e.kind = "summary" THEN << << "SUMMARY", Head(idxs) >> >>
                      ELSE IF e.kind = "user" THEN << << "USER", Head(idxs) >> >>
                      ELSE IF e.kind = "assistant" THEN << << "ASSISTANT", Head(idxs) >> >>
                      ELSE << >>
         IN  block \o format_context(entries, Tail(idxs))

VARIABLES
    ukLines,      \* the file's lines
    ukPc,         \* "start", "read", "selected", "rendered"
    ukEntries,    \* what read_transcript returned
    ukWarnings,   \* number of lines warned about
    ukCursor,     \* the cursor of the selections
    ukSince,      \* get_messages_since's slice (positions)
    ukWindow,     \* get_messages_in_window's slice (positions)
    ukMessages,   \* the positions handed to format_context
    ukContext     \* what format_context returned

varsL == << ukLines, ukPc, ukEntries, ukWarnings, ukCursor, ukSince, ukWindow,
            ukMessages, ukContext >>

InitLWith(lines) ==
    /\ ukLines = lines /\ ukPc = "start" /\ ukEntries = << >> /\ ukWarnings = 0
    /\ ukCursor = None /\ ukSince = << >> /\ ukWindow = << >>
    /\ ukMessages = << >> /\ ukContext = << >>
InitL == \E lines \in RecFiles : InitLWith(lines)
IdleL == InitLWith(<< >>)

\* read_transcript(path) on a file that opens
ReadRecords ==
    /\ ukPc = "start"
    /\ ukEntries' = ReadLines(ukLines)[1]
    /\ ukWarnings' = ReadLines(ukLines)[2]
    /\ ukPc' = "read"
    /\ UNCHANGED << ukLines, ukCursor, ukSince, ukWindow, ukMessages, ukContext >>

\* extract.rs 190-217: both selections, for some cursor and session filter
SelectRecords ==
    /\ ukPc = "read"
    /\ \E cursor \in {None, Some(0), Some(CARRYOVER_WINDOW_MINUTES)}, sid \in {None, Some("s1")} :
        /\ ukCursor' = cursor
        /\ ukSince' = GetMessagesSince(ukEntries, cursor, sid)
        /\ ukWindow' = IF IsSome(cursor)
                       THEN GetMessagesInWindow(ukEntries,
                                Unwrap(cursor) - CARRYOVER_WINDOW_MINUTES, Unwrap(cursor), sid)
                       ELSE << >>
    /\ ukPc' = "selected"
    /\ UNCHANGED << ukLines, ukEntries, ukWarnings, ukMessages, ukContext >>

\* format_context on a slice (extract.rs 203, 231) or on the records as read
RenderRecords ==
    /\ ukPc = "selected"
    /\ \E msgs \in {ukSince, ukWindow, Indices(Len(ukEntries))} :
        /\ ukMessages' = msgs
        /\ ukContext' = format_context(ukEntries, msgs)
    /\ ukPc' = "rendered"
    /\ UNCHANGED << ukLines, ukEntries, ukWarnings, ukCursor, ukSince, ukWindow >>

\* ------------------------------------------------------- claims of part L
UnknownLine(line) == line # GarbageLine /\ line.type \notin KnownTypes
WithoutUnknownLines == SelectSeq(ukLines, LAMBDA l : ~UnknownLine(l))
KnownEntries == SelectSeq(ukEntries, LAMBDA e : e.kind # "unknown")
KnownOf(idxs) == SelectSeq(idxs, LAMBDA i : ukEntries[i].kind # "unknown")
Labels(ctx) == [k \in 1..Len(ctx) |-> ctx[k][1]]

\* C29: a well-formed line of an unknown record type decodes to Unknown
\* without error or warning; the records of the other lines are those the
\* file gives without the unknown lines; no Unknown record is in the slice of
\* get_messages_since or get_messages_in_window; format_context renders
\* nothing for an Unknown record.
C29_UnknownIsInert ==
    ukPc # "start" =>
        /\ Len(ukEntries) = Len(SelectSeq(ukLines, LAMBDA l : l # GarbageLine))
        /\ Len(SelectSeq(ukEntries, LAMBDA e : e.kind = "unknown"))
              = Len(SelectSeq(ukLines, UnknownLine))
        /\ KnownEntries = ReadLines(WithoutUnknownLines)[1]
        /\ ukWarnings = ReadLines(WithoutUnknownLines)[2]
        /\ \A k \in 1..Len(ukSince) : ukEntries[ukSince[k]].kind # "unknown"
        /\ \A k \in 1..Len(ukWindow) : ukEntries[ukWindow[k]].kind # "unknown"
        /\ ukPc = "rendered" =>
            /\ \A k \in 1..Len(ukContext) : ukEntries[ukContext[k][2]].kind # "unknown"
            /\ Labels(ukContext) = Labels(format_context(ukEntries, KnownOf(ukMessages)))

\* a file with an unknown line between two known ones was read, both slices
\* are non-empty, and the records as read, the Unknown one among them, were
\* rendered
C29_Witness ==
    /\ ukPc = "rendered"
    /\ Len(ukLines) = 3 /\ UnknownLine(ukLines[2])
    /\ ~UnknownLine(ukLines[1]) /\ ~UnknownLine(ukLines[3])
    /\ ukSince # << >> /\ ukWindow # << >>
    /\ Len(ukMessages) = 3 /\ Len(ukContext) = 2

(***************************************************************************)
(* Part M  pause and resume: main.rs run_pause, run_resume; state.rs       *)
(*         read_config, write_config; the paused test of extract.rs run    *)
(*         and run_hook                                                    *)
(***************************************************************************)
\* types.rs Config
Config(extract, compile, current) ==
    [operations |-> [extract |-> extract, compile |-> compile], dive |-> [current |-> current]]
\* Config::default(): both operations enabled, no current prep
DefaultConfig == Config(TRUE, TRUE, None)

\* the operand of pause and resume
PauseOperands == {Some("extract"), Some("compile"), Some("bogus"), None}
\* how extract is invoked
ExtractEntries == {"run", "run_hook"}

VARIABLES
    configFile,   \* .wm/config.toml: None when missing, Some(Config)
    pausedNew,    \* history: positions of the records appended while extract was paused
    refused,      \* history: None, or Some of the exit status of the last extract
                  \* command that found extract paused
    resumeRun     \* history: Some while the run under way or just ended is the first
                  \* one begun after those records arrived, None otherwise

varsM == << configFile, pausedNew, refused, resumeRun >>

InitM ==
    /\ configFile = None
    /\ pausedNew = {}
    /\ refused = None
    /\ resumeRun = None
IdleM == InitM

\* state.rs 73-79: the default when the file is missing
read_config == IF IsSome(configFile) THEN Unwrap(configFile) ELSE DefaultConfig

\* a test that reads the compile switch
is_compile_enabled == read_config.operations.compile

\* state.rs 90-92
is_extract_enabled == read_config.operations.extract

\* main.rs 137-154, 166-183: the switches of `operation` set to `value`
SetOperations(config, operation, value) ==
    IF operation = Some("extract") THEN [config EXCEPT !.operations.extract = value]
    ELSE IF operation = Some("compile") THEN [config EXCEPT !.operations.compile = value]
    ELSE [config EXCEPT !.operations.extract = value, !.operations.compile = value]

\* main.rs 130-157 (value FALSE) and 159-186 (value TRUE)
PauseOrResume(operation, value) ==
    /\ IF operation = Some("bogus")
       THEN UNCHANGED configFile
       ELSE configFile' = Some(SetOperations(read_config, operation, value))
    /\ UNCHANGED << pausedNew, refused, resumeRun >>

run_pause(operation) == PauseOrResume(operation, FALSE) /\ UNCHANGED varsA
run_resume(operation) == PauseOrResume(operation, TRUE) /\ UNCHANGED varsA

\* extract.rs 38-43, 56-60: a paused run returns Ok at once
ExtractPaused(entry) ==
    /\ ~is_extract_enabled
    /\ refused' = Some("success")
    /\ UNCHANGED << configFile, pausedNew, resumeRun >>
    /\ UNCHANGED varsA

\* extract.rs 45-47, 62-64: an enabled run goes on to extract_from_transcript
ExtractEnabled(entry, p, sid) ==
    /\ is_extract_enabled
    /\ Begin(p, sid)
    /\ IF pausedNew # {}
       THEN /\ resumeRun' = Some([proc |-> p, expected |-> pausedNew, refused |-> refused])
            /\ pausedNew' = {}
            /\ refused' = None
       ELSE /\ resumeRun' = None
            /\ UNCHANGED << pausedNew, refused >>
    /\ UNCHANGED configFile

\* the producer appends a record, paused or not
AppendMaybePaused ==
    /\ AppendRecord
    /\ pausedNew' = IF read_config.operations.extract THEN pausedNew
                    ELSE pausedNew \cup {Len(transcript) + 1}
    /\ UNCHANGED << configFile, refused, resumeRun >>

\* ------------------------------------------------------- claims of part M
AllIdle == \A p \in Procs : pc[p] = "idle"
\* the configuration has the extract switch off
ExtractIsPaused == IsSome(configFile) /\ ~Unwrap(configFile).operations.extract
\* the records among idxs that a run of session sid is to select
Wanted(idxs, sid) ==
    {i \in idxs : content_filter(transcript[i]) /\ session_filter(transcript[i], sid)}

\* C31: while extract is paused no run starts: an extract command, interactive
\* or hook, returns success and leaves the transcript position, the run
\* state, state.md and every checkpoint as they were, and with no run under
\* way nothing writes state.md or a checkpoint; once extract is resumed the
\* first run selects every message and summary of its session that arrived
\* during the pause.
C31_PausedRunsDoNothing ==
    /\ [](IsSome(refused) => refused = Some("success"))
    /\ [][ExtractIsPaused =>
            /\ started' = started
            /\ \A p \in Procs : pc[p] = "idle" => (pc'[p] = "idle" /\ run'[p] = run[p])
            /\ AllIdle => (stateMd' = stateMd /\ ckptFile' = ckptFile /\ delivered' = delivered)]_<< varsA, varsM >>
    /\ [](IsSome(resumeRun) =>
            LET r == Unwrap(resumeRun)
            IN  pc[r.proc] \in {"oracle", "writeState", "writeCkpt", "done"} =>
                    Wanted(r.expected, run[r.proc].sid) \subseteq Range(run[r.proc].messages))

\* extract was paused, a record of the run's session arrived, a paused run
\* returned, extract was resumed and the first run after it has selected the
\* record
C31_Witness ==
    /\ IsSome(resumeRun) /\ IsSome(configFile) /\ ~ExtractIsPaused
    /\ LET r == Unwrap(resumeRun)
       IN  /\ pc[r.proc] = "oracle" /\ IsSome(r.refused)
           /\ Wanted(r.expected, run[r.proc].sid) # {}

(***************************************************************************)
(* Part N  the distill command: distill.rs run, accumulate_extractions,    *)
(*         write_raw_extractions, run_pass2, around pass 1 of part D       *)
(***************************************************************************)
\* content.trim().is_empty()
IsBlankContent(content) == content \in {"", " "}

\* cache.json of an earlier run: entries with and without knowledge, one
\* with knowledge and blank content
DistillCaches ==
    {c \in [DistillIds -> {None} \cup
                {Some(SessionExtraction(id, 0, o[1], o[2], 1)) :
                    id \in DistillIds, o \in {<< TRUE, "old" >>, << TRUE, " " >>, << FALSE, "" >>}}] :
        WellKeyed(c)}

\* a document that takes every result with has_knowledge set
accumulate_all_with_knowledge(extractions) ==
    LET Section(x) == IF x.has_knowledge
                      THEN << "## Session: ", x.session_id, "\n", "\n", x.content, "\n", "\n" >>
                      ELSE << >>
        F[k \in 0..Len(extractions)] ==
            IF k = 0 THEN << >> ELSE F[k - 1] \o Section(extractions[k])
    IN  Trim(F[Len(extractions)])

\* distill.rs 545-559
accumulate_extractions(extractions) ==
    LET Section(x) == IF x.has_knowledge /\ ~IsBlankContent(x.content)
                      THEN << "## Session: ", x.session_id, "\n", "\n", x.content, "\n", "\n" >>
                      ELSE << >>
        F[k \in 0..Len(extractions)] ==
            IF k = 0 THEN << >> ELSE F[k - 1] \o Section(extractions[k])
    IN  Trim(F[Len(extractions)])

\* raw_extractions.md of an earlier run
OldRaw == << "## Session: ", "z", "\n", "\n", "old" >>
\* what the categorization oracle returns: an error, or the two lists
CategorizationOutcomes ==
    {Err("oracle")} \cup {Ok([guardrails |-> g, metis |-> m]) : g, m \in {<< >>, << "item" >>}}

VARIABLES
    dry_run,       \* --dry-run
    drPc,          \* "start", "pass1", "accumulate", "pass2", then "ok" or "err"
    drListed,      \* the status printed for each session by a dry run
    rawFile,       \* .wm/distill/raw_extractions.md: None when missing
    catFiles,      \* guardrails.md and metis.md: None when missing
    extractCalls,  \* extraction oracle calls made for each session visited
    catCalls,      \* categorization oracle calls made
    drBefore       \* history: the files at the start of the run

varsN == << dry_run, drPc, drListed, rawFile, catFiles, extractCalls, catCalls, drBefore >>

DistillFiles == [cache |-> cacheFile, raw |-> rawFile, categorized |-> catFiles, errors |-> errLog]

InitNWith(d, raw, cat) ==
    /\ dry_run = d /\ drPc = "start" /\ drListed = << >>
    /\ rawFile = raw /\ catFiles = cat
    /\ extractCalls = << >> /\ catCalls = 0
    /\ drBefore = [cache |-> cacheFile, raw |-> raw, categorized |-> cat, errors |-> errLog]
InitN ==
    \E d \in BOOLEAN, old \in BOOLEAN :
        InitNWith(d, IF old THEN Some(OldRaw) ELSE None,
                  [f \in {"guardrails.md", "metis.md"} |-> IF old THEN Some(<< "old" >>) ELSE None])
IdleN ==
    /\ dry_run = FALSE /\ drPc = "start" /\ drListed = << >>
    /\ rawFile = None /\ catFiles = [f \in {"guardrails.md", "metis.md"} |-> None]
    /\ extractCalls = << >> /\ catCalls = 0
    /\ drBefore = << >>

\* distill.rs 81-88: no session found
DistillNoSessions ==
    /\ drPc = "start" /\ sessions = << >>
    /\ drPc' = "ok"
    /\ UNCHANGED << dry_run, drListed, rawFile, catFiles, extractCalls, catCalls, drBefore >>
    /\ UNCHANGED varsD

\* a dry run that leaves an empty cache behind
DistillDryRunSavesCache ==
    /\ drPc = "start" /\ sessions # << >> /\ dry_run
    /\ drListed' = [k \in 1..Len(sessions) |-> "listed"]
    /\ cacheFile' = EmptyCache
    /\ drPc' = "ok"
    /\ UNCHANGED << dry_run, rawFile, catFiles, extractCalls, catCalls, drBefore >>
    /\ UNCHANGED << sessions, force, cache0, cache, results, di, dpc, errLog, attempts, pass, prev >>

\* distill.rs 96-110: the dry run lists the sessions and returns
DistillDryRun ==
    /\ drPc = "start" /\ sessions # << >> /\ dry_run
    /\ drListed' = [k \in 1..Len(sessions) |->
                        IF force THEN "force"
                        ELSE IF needs_extraction(sessions[k], cacheFile) THEN "new/changed"
                        ELSE "cached"]
    /\ drPc' = "ok"
    /\ UNCHANGED << dry_run, rawFile, catFiles, extractCalls, catCalls, drBefore >>
    /\ UNCHANGED varsD

\* distill.rs 113-115: pass 1 begins
DistillBeginPass1 ==
    /\ drPc = "start" /\ sessions # << >> /\ ~dry_run
    /\ drPc' = "pass1"
    /\ UNCHANGED << dry_run, drListed, rawFile, catFiles, extractCalls, catCalls, drBefore >>
    /\ UNCHANGED varsD

\* pass 1 takes a session from the cache: no oracle call
DistillPass1Cached ==
    /\ drPc = "pass1" /\ Pass1Cached
    /\ extractCalls' = Append(extractCalls, 0)
    /\ UNCHANGED << dry_run, drPc, drListed, rawFile, catFiles, catCalls, drBefore >>

\* distill.rs 439-491: extract_from_session returns Ok, without an oracle
\* call when the session renders blank (462-470), after one otherwise
DistillPass1Extracted ==
    /\ drPc = "pass1" /\ Pass1Extracted
    /\ \E n \in {0, 1} :
        /\ results'[Len(results')].has_knowledge => n = 1
        /\ extractCalls' = Append(extractCalls, n)
    /\ UNCHANGED << dry_run, drPc, drListed, rawFile, catFiles, catCalls, drBefore >>

\* extract_from_session returns Err: of read_transcript (no oracle call) or of
\* call_extraction_llm (one)
DistillPass1Failed ==
    /\ drPc = "pass1" /\ Pass1Failed
    /\ \E n \in {0, 1} : extractCalls' = Append(extractCalls, n)
    /\ UNCHANGED << dry_run, drPc, drListed, rawFile, catFiles, catCalls, drBefore >>

\* distill.rs 115: run_pass1 returns, `?` passing its error on
DistillPass1Returns ==
    /\ drPc = "pass1" /\ SaveExtractionCache
    /\ drPc' = IF dpc' = "ok" THEN "accumulate" ELSE "err"
    /\ UNCHANGED << dry_run, drListed, rawFile, catFiles, extractCalls, catCalls, drBefore >>

\* distill.rs 118-126 and 587-598: nothing to write, or the raw document is
\* written (or the write fails, the file then untouched or truncated)
DistillAccumulate ==
    /\ drPc = "accumulate"
    /\ LET raw_content == accumulate_extractions(results)
       IN  IF raw_content = << >>
           THEN drPc' = "ok" /\ UNCHANGED rawFile
           ELSE \/ rawFile' = Some(raw_content) /\ drPc' = "pass2"
                \/ rawFile' \in {rawFile, Some(<< >>)} /\ drPc' = "err"
    /\ UNCHANGED << dry_run, drListed, catFiles, extractCalls, catCalls, drBefore >>
    /\ UNCHANGED varsD

\* distill.rs 155-186: one categorization call, then a file for each
\* non-empty list
DistillPass2 ==
    /\ drPc = "pass2"
    /\ catCalls' = catCalls + 1
    /\ \E r \in CategorizationOutcomes :
        IF IsOk(r)
        THEN /\ catFiles' = [f \in {"guardrails.md", "metis.md"} |->
                                LET items == IF f = "guardrails.md" THEN r[2].guardrails
                                             ELSE r[2].metis
                                IN  IF items # << >> THEN Some(items) ELSE catFiles[f]]
             /\ drPc' = "ok"
        ELSE UNCHANGED catFiles /\ drPc' = "err"
    /\ UNCHANGED << dry_run, drListed, rawFile, extractCalls, drBefore >>
    /\ UNCHANGED varsD

\* ------------------------------------------------------- claims of part N
RECURSIVE SumSeq(_)
SumSeq(q) == IF q = << >> THEN 0 ELSE Head(q) + SumSeq(Tail(q))
\* the session ids of the sections of a raw document, in order
SectionIds(doc) ==
    LET at == SelectSeq([k \in 1..Len(doc) |-> k], LAMBDA k : doc[k] = "## Session: ")
    IN  [j \in 1..Len(at) |-> doc[at[j] + 1]]
Qualifies(x) == x.has_knowledge /\ x.content \notin {"", " "}
\* the sessions of the list, in discovery order, whose result qualifies
QualifyingIds ==
    SelectSeq(Ids(sessions),
              LAMBDA id : \E j \in 1..Len(results) :
                              results[j].session_id = id /\ Qualifies(results[j]))

\* C32: a dry-run distill makes no oracle call and leaves the extraction
\* cache, the raw extraction document, the categorized files and the error
\* log as they were, whatever the force flag and the cache hold.
C32_DryRunWritesNothing ==
    dry_run =>
        /\ DistillFiles = drBefore
        /\ SumSeq(extractCalls) = 0 /\ catCalls = 0
        /\ drPc \in {"start", "ok"}

\* a forced dry run over a cache with an entry has listed two sessions
C32_Witness ==
    /\ dry_run /\ drPc = "ok" /\ force /\ Len(drListed) = 2
    /\ \E id \in DistillIds : IsSome(cacheFile[id])
    /\ IsSome(rawFile)

\* C33: the raw document written after pass 1 has exactly one section for
\* each session whose result has has_knowledge set and non-blank content, in
\* discovery order, cached or fresh; when no session qualifies nothing is
\* written to the raw document, pass 2 does not run and no categorization
\* call is made.
C33_RawDocumentSections ==
    /\ (drPc = "pass2" \/ catCalls > 0) =>
        /\ IsSome(rawFile) /\ SectionIds(Unwrap(rawFile)) = QualifyingIds
        /\ QualifyingIds # << >>
    /\ (drPc \in {"ok", "err"} /\ ~dry_run /\ dpc = "ok" /\ QualifyingIds = << >>) =>
        /\ drPc = "ok"
        /\ rawFile = drBefore.raw /\ catFiles = drBefore.categorized /\ catCalls = 0
    /\ catCalls <= 1

\* the raw document has one section, of a session taken from the cache, while
\* a freshly extracted session with knowledge and blank content has none
C33_Witness ==
    /\ drPc = "pass2" /\ Len(SectionIds(Unwrap(rawFile))) = 1
    /\ \E k \in 1..Len(attempts) : attempts[k].how = "cached" /\ Qualifies(ResultOf(attempts[k].id))
    /\ \E k \in 1..Len(attempts) :
        /\ attempts[k].how = "extracted"
        /\ ResultOf(attempts[k].id).has_knowledge /\ ~Qualifies(ResultOf(attempts[k].id))

HowMany(how) == Cardinality({k \in 1..Len(attempts) : attempts[k].how = how})

\* C38: pass 1 ends for every list of sessions, and when it has ended every
\* session was handled once: extracted + cached + failed is the number of
\* sessions, at most one extraction oracle call was made for each and none
\* for a cached one, and the results are the extracted and the cached ones.
C38_Pass1HandlesEachSessionOnce ==
    /\ [](dpc \in {"ok", "err"} =>
            /\ HowMany("extracted") + HowMany("cached") + HowMany("failed") = Len(sessions)
            /\ AttemptIds = Ids(sessions)
            /\ Len(extractCalls) = Len(sessions)
            /\ \A k \in 1..Len(extractCalls) :
                extractCalls[k] <= (IF attempts[k].how = "cached" THEN 0 ELSE 1)
            /\ Len(results) = HowMany("extracted") + HowMany("cached"))
    /\ (drPc = "pass1") ~> (dpc \in {"ok", "err"})

\* pass 1 has ended over two sessions, one taken from the cache and one that
\* failed after its oracle call
C38_Witness ==
    /\ dpc = "ok" /\ Len(sessions) = 2
    /\ HowMany("cached") = 1 /\ HowMany("failed") = 1
    /\ SumSeq(extractCalls) = 1

(***************************************************************************)
(* Part O  the compress command: compress.rs run, call_compression,        *)
(*         parse_compression_response, parse_compression_result, over the  *)
(*         file system of part B                                           *)
(***************************************************************************)
CompressionResult(was, content) == [was_compressed |-> was, content |-> content]

\* compress.rs 193-221: the marker scan of llm.rs with WAS_COMPRESSED
parse_compression_result(result_str) ==
    LET r == Scan(Lines(result_str), 1, "WAS_COMPRESSED:")
    IN  CompressionResult(r.is_positive, r.content)

\* compress.rs 223-234
parse_compression_response(stdout) ==
    IF stdout[1] # "json" THEN Err("Failed to parse Claude CLI response")
    ELSE IF stdout[2] # "string" THEN Err("Claude CLI response missing 'result' field")
    ELSE Ok(parse_compression_result(stdout[3]))

\* compress.rs 153-181: spawn, wait, exit status, then the response is parsed
call_compression(o) ==
    IF ~o.spawned THEN Err("Failed to spawn claude CLI")
    ELSE IF ~o.waited THEN Err("Failed to wait for claude CLI")
    ELSE IF ~o.success THEN Err("Claude CLI failed")
    ELSE parse_compression_response(o.stdout)

\* the replies of the compression oracle (compress.rs 130-139, and off-format ones)
CompressReplies ==
    { << "WAS_COMPRESSED:", " ", "YES", "\n", "\n", "docA", "\n", "docB" >>,
      << "*", "*", "WAS_COMPRESSED:", " ", "TRUE", "\n", "docA" >>,
      << "WAS_COMPRESSED:", " ", "YES" >>,
      << "WAS_COMPRESSED:", " ", "NO" >>,
      << "WAS_COMPRESSED:", " ", "NO", "\n", "WAS_COMPRESSED:", " ", "YES", "\n", "docA" >>,
      << "docA" >> }
CompressOutputs ==
    { ClaudeOutput(TRUE, TRUE, TRUE, JsonResult(r)) : r \in CompressReplies }
    \cup { ClaudeOutput(FALSE, FALSE, FALSE, NotJson),
           ClaudeOutput(TRUE, TRUE, FALSE, JsonResult(<< "WAS_COMPRESSED:", " ", "YES", "\n", "docA" >>)),
           ClaudeOutput(TRUE, TRUE, TRUE, NotJson),
           ClaudeOutput(TRUE, TRUE, TRUE, JsonNoResult) }

\* state.md before the run: a document, a blank file, or no file;
\* state.md.backup of an earlier run, or none
StateDocs == {Some(<< "old1", "\n", "old2" >>), Some(<< "\n", "old1", "\n" >>), Some(<< "docA" >>),
              Some(<< " ", "\n" >>), None}
BackupDocs == {Some(<< "older" >>), None}

\* a run that replaces state.md first and writes the backup afterwards
CompressWritesBackupLast(current, content) ==
    << WriteOp(TmpPath, content), RenameOp(TmpPath, "state.md"),
       WriteOp("state.md.backup", current) >>

\* compress.rs 44-55: backup, temp file, rename
CompressWrites(current, content) ==
    << WriteOp("state.md.backup", current),
       WriteOp(TmpPath, content), RenameOp(TmpPath, "state.md") >>

VARIABLES
    cpPc,         \* "start", "oracle", "write", then "ok" or "err"
    cpState,      \* current_state as read
    cpResult,     \* None, or Some of what call_compression returned
    cpBefore      \* history: state.md and state.md.backup at the start

varsO == << cpPc, cpState, cpResult, cpBefore >>

\* the file system holding state.md and state.md.backup as given
InitFsWith(doc, backup) ==
    /\ fsInodes = << IF IsSome(doc) THEN Unwrap(doc) ELSE << >>,
                     IF IsSome(backup) THEN Unwrap(backup) ELSE << >> >>
    /\ fsDir = [f \in Files |-> CASE f = "state.md" -> (IF IsSome(doc) THEN 1 ELSE 0)
                                  [] f = "state.md.backup" -> (IF IsSome(backup) THEN 2 ELSE 0)
                                  [] OTHER -> 0]
    /\ wr = [w \in Writers |-> IdleWriter]

InitOWith(doc, backup) ==
    /\ cpPc = "start" /\ cpState = << >> /\ cpResult = None
    /\ cpBefore = [state |-> doc, backup |-> backup]
InitO == \E doc \in StateDocs, backup \in BackupDocs : InitFsWith(doc, backup) /\ InitOWith(doc, backup)
IdleO == InitOWith(None, None)

\* compress.rs 18-25: read state.md; Err when it cannot be read, Ok at once
\* when it is blank
CompressRead ==
    /\ cpPc = "start"
    /\ LET file == ReadFile("state.md")
       IN  IF ~IsSome(file) THEN cpPc' = "err" /\ UNCHANGED cpState
           ELSE /\ cpState' = Unwrap(file)
                /\ cpPc' = IF Trim(Unwrap(file)) = << >> THEN "ok" ELSE "oracle"
    /\ UNCHANGED << cpResult, cpBefore >>
    /\ UNCHANGED varsB

\* compress.rs 42-44 and 75-82: the oracle call; its Err is returned, a
\* negative answer ends the run, a positive one goes on to the writes
CompressOracle ==
    /\ cpPc = "oracle"
    /\ \E o \in CompressOutputs :
        LET compressed == call_compression(o)
        IN  /\ cpResult' = Some(compressed)
            /\ IF ~IsOk(compressed) THEN cpPc' = "err" /\ UNCHANGED varsB
               ELSE IF ~compressed[2].was_compressed THEN cpPc' = "ok" /\ UNCHANGED varsB
               ELSE /\ cpPc' = "write"
                    /\ StartWriter("w1", "compress", CompressWrites(cpState, compressed[2].content))
    /\ UNCHANGED << cpState, cpBefore >>

\* one system call of the three writes
CompressWriteStep ==
    /\ cpPc = "write"
    /\ FsOpen("w1") \/ FsWriteChunk("w1") \/ FsRename("w1")
    /\ cpPc' = IF wr'["w1"].st = "done" THEN "ok"
               ELSE IF wr'["w1"].st = "failed" THEN "err" ELSE "write"
    /\ UNCHANGED << cpState, cpResult, cpBefore >>

\* ------------------------------------------------------- claims of part O
CompressedPositive == IsSome(cpResult) /\ IsOk(Unwrap(cpResult)) /\ Unwrap(cpResult)[2].was_compressed

\* C34: after a compress run in which the oracle answered positive,
\* state.md.backup holds the state read at the start and state.md the
\* compressed content; state.md is not replaced before the backup is
\* complete; after a run in which the oracle answered negative, gave no
\* marker or failed, state.md and state.md.backup are as they were.
C34_BackupThenReplace ==
    /\ (cpPc = "ok" /\ CompressedPositive) =>
        /\ ReadFile("state.md.backup") = Some(cpState) /\ Some(cpState) = cpBefore.state
        /\ ReadFile("state.md") = Some(Unwrap(cpResult)[2].content)
    /\ ReadFile("state.md") # cpBefore.state => ReadFile("state.md.backup") = cpBefore.state
    /\ (cpPc \in {"ok", "err"} /\ ~CompressedPositive) =>
        /\ ReadFile("state.md") = cpBefore.state
        /\ ReadFile("state.md.backup") = cpBefore.backup

\* a run over an earlier backup has ended after a positive answer wrapped in
\* markdown, with two lines of compressed content
C34_Witness ==
    /\ cpPc = "ok" /\ CompressedPositive /\ IsSome(cpBefore.backup)
    /\ Len(Unwrap(cpResult)[2].content) > 1
    /\ ReadFile("state.md.backup") # cpBefore.backup

(***************************************************************************)
(* Part P  distill passes over one growing transcript: session.rs          *)
(*         discover_sessions_in_dir, distill.rs run_pass1,                 *)
(*         needs_extraction, extract_from_session                          *)
(***************************************************************************)
MaxFileSize == 4     \* bytes of the transcript file
MaxPasses == 3       \* distill runs

\* an extraction that records the size the file has when the entry is built
ExtractionFileSizeNow(session, size_now) == size_now

\* distill.rs 466, 476, 489: file_size_bytes: session.size_bytes
ExtractionFileSize(session, size_now) == session.size_bytes

VARIABLES
    grFileSize,   \* metadata.len() of the transcript now
    grPc,         \* "idle", "decide", "read", "result"
    grSession,    \* the SessionInfo of the pass under way
    grForce,      \* options.force of the pass under way
    grCache,      \* cache.json
    grPasses,     \* passes started
    grRead,       \* history: None, or Some(size of the file at the last read)
    grGrown,      \* history: the file was appended to after the last read
    grSeen,       \* history: grGrown at the discovery of the pass under way
    grDecision    \* history: "", "cached" or "extract", of the last pass

varsP == << grFileSize, grPc, grSession, grForce, grCache, grPasses,
            grRead, grGrown, grSeen, grDecision >>

InitPWith(size) ==
    /\ grFileSize = size /\ grPc = "idle" /\ grSession = SessionInfo("a", size)
    /\ grForce = FALSE /\ grCache = EmptyCache /\ grPasses = 0
    /\ grRead = None /\ grGrown = FALSE /\ grSeen = FALSE /\ grDecision = ""
InitP == \E size \in {0, 1} : InitPWith(size)
IdleP == InitPWith(0)

\* the producer appends to the transcript, at any moment
TranscriptGrows ==
    /\ grFileSize < MaxFileSize
    /\ grFileSize' = grFileSize + 1
    /\ grGrown' = IsSome(grRead)
    /\ UNCHANGED << grPc, grSession, grForce, grCache, grPasses, grRead, grSeen, grDecision >>

\* session.rs 77-90: the size is taken from the metadata at discovery
GrowDiscover ==
    /\ grPc = "idle" /\ grPasses < MaxPasses
    /\ \E f \in BOOLEAN : grForce' = f
    /\ grSession' = SessionInfo("a", grFileSize)
    /\ grSeen' = grGrown
    /\ grPasses' = grPasses + 1
    /\ grDecision' = ""
    /\ grPc' = "decide"
    /\ UNCHANGED << grFileSize, grCache, grRead, grGrown >>

\* distill.rs 373-380
GrowCached ==
    /\ grPc = "decide"
    /\ ~grForce /\ ~needs_extraction(grSession, grCache) /\ IsSome(grCache[grSession.session_id])
    /\ grDecision' = "cached"
    /\ grPc' = "idle"
    /\ UNCHANGED << grFileSize, grSession, grForce, grCache, grPasses, grRead, grGrown, grSeen >>

\* distill.rs 383-384: the session goes to extract_from_session
GrowExtract ==
    /\ grPc = "decide"
    /\ ~(~grForce /\ ~needs_extraction(grSession, grCache) /\ IsSome(grCache[grSession.session_id]))
    /\ grDecision' = "extract"
    /\ grPc' = "read"
    /\ UNCHANGED << grFileSize, grSession, grForce, grCache, grPasses, grRead, grGrown, grSeen >>

\* distill.rs 447-448: read_transcript reads the file as it is now, or fails
GrowRead ==
    /\ grPc = "read"
    /\ \/ /\ grRead' = Some(grFileSize) /\ grGrown' = FALSE
          /\ grPc' = "result"
       \/ /\ grPc' = "idle"
          /\ UNCHANGED << grRead, grGrown >>
    /\ UNCHANGED << grFileSize, grSession, grForce, grCache, grPasses, grSeen, grDecision >>

\* distill.rs 462-490 and 394: an Ok extraction is put in the cache
GrowExtracted ==
    /\ grPc = "result"
    /\ \E o \in ExtractionOutcomes :
        grCache' = [grCache EXCEPT ![grSession.session_id] =
            Some(SessionExtraction(grSession.session_id, grPasses, o[1], o[2],
                                   ExtractionFileSize(grSession, grFileSize)))]
    /\ grPc' = "idle"
    /\ UNCHANGED << grFileSize, grSession, grForce, grPasses, grRead, grGrown, grSeen, grDecision >>

\* distill.rs 480 and 399-405: the oracle call failed, the cache keeps what it had
GrowFailed ==
    /\ grPc = "result"
    /\ grPc' = "idle"
    /\ UNCHANGED << grFileSize, grSession, grForce, grCache, grPasses, grRead, grGrown, grSeen, grDecision >>

\* ------------------------------------------------------- claims of part P
\* C35: once a pass has read the transcript, content appended afterwards
\* makes the next pass that is not forced extract the session again, never
\* take it from the cache; the size in the cache entry is never larger than
\* the size of the file at the read that followed its discovery.
C35_AppendForcesReextraction ==
    /\ grDecision = "cached" => ~grSeen
    /\ (IsSome(grCache["a"]) /\ IsSome(grRead)) =>
          Unwrap(grCache["a"]).file_size_bytes <= Unwrap(grRead)

\* a pass that was not forced has sent the session to extraction again, over
\* an entry of an earlier pass, because the file grew after that pass's read
C35_Witness ==
    /\ grDecision = "extract" /\ ~grForce /\ grSeen
    /\ IsSome(grCache["a"]) /\ IsSome(grRead)
    /\ Unwrap(grCache["a"]).file_size_bytes < Unwrap(grRead)

(***************************************************************************)
(* Part Q  the dive commands: dive.rs new, switch, delete, save, load,     *)
(*         clear, is_valid_prep_name; state.rs dive_prep_path,             *)
(*         current_dive, set_current_dive                                  *)
(***************************************************************************)
MaxDiveCommands == 4     \* dive commands issued

LowercaseChars == {"a", "b"}
DigitChars == {"0"}

\* the names given on the command line, as sequences of characters
PrepNames == { << "a" >>, << "b" >>, << ".", "/", "a" >>, << >> }

\* dive.rs 546-560 with every name of at most 64 characters
is_valid_prep_name(name) ==
    /\ name # << >>
    /\ Len(name) <= 64
    /\ name[1] \in LowercaseChars
    /\ \A k \in 1..Len(name) : name[k] \in LowercaseChars \cup DigitChars \cup {"-"}

\* the directory entry of .wm/dives that the path .wm/dives/{name}.md leads
\* to: a leading "./" stays in the directory
RECURSIVE FileOfPrep(_)
FileOfPrep(name) ==
    IF Len(name) >= 2 /\ name[1] = "." /\ name[2] = "/"
    THEN FileOfPrep(SubSeq(name, 3, Len(name)))
    ELSE name \o << ".md" >>

\* state.rs 111-113: dive_dir().join(format!("{}.md", name)), as the file
\* system resolves it
dive_prep_path(name) == FileOfPrep(name)
PrepFiles == {dive_prep_path(n) : n \in PrepNames}

\* what load fetches: an error on the way, or the rendered_md of the pack
FetchOutcomes == {Err("Failed to fetch dive pack"), Ok("pack")}

VARIABLES
    dvFiles,      \* .wm/dives: for each file None, or Some(content)
    dvLegacy,     \* .wm/dive_context.md: None, or Some(content)
    dvCount,      \* commands issued
    dvLast        \* history: the last command, its result, and what it found

varsQ == << dvFiles, dvLegacy, dvCount, dvLast >>

NoCommand == [cmd |-> "", name |-> << >>, ok |-> TRUE,
              files |-> [f \in PrepFiles |-> None], current |-> None]

InitQWith(legacy) ==
    /\ dvFiles = [f \in PrepFiles |-> None]
    /\ dvLegacy = legacy
    /\ dvCount = 0
    /\ dvLast = NoCommand
InitQ == \E legacy \in {None, Some("ctx")} : InitQWith(legacy)
IdleQ == InitQWith(None)

\* path.exists()
PrepExists(name) == IsSome(dvFiles[dive_prep_path(name)])

\* state.rs 137-139
current_dive == read_config.dive.current

\* state.rs 142-146: read, set dive.current, write
set_current_dive(name) == configFile' = Some([read_config EXCEPT !.dive.current = name])

\* the command as recorded, with what it found
Issued(c, name, ok) ==
    /\ dvCount < MaxDiveCommands
    /\ dvCount' = dvCount + 1
    /\ dvLast' = [cmd |-> c, name |-> name, ok |-> ok, files |-> dvFiles, current |-> current_dive]

\* dive.rs 247-282
DiveNew(name, content) ==
    IF ~is_valid_prep_name(name) \/ PrepExists(name)
    THEN Issued("new", name, FALSE) /\ UNCHANGED << dvFiles, dvLegacy, configFile >>
    ELSE /\ Issued("new", name, TRUE)
         /\ dvFiles' = [dvFiles EXCEPT ![dive_prep_path(name)] =
                            Some(IF IsSome(content) THEN Unwrap(content) ELSE "default")]
         /\ UNCHANGED << dvLegacy, configFile >>

\* dive.rs 285-303
DiveSwitch(name) ==
    IF ~PrepExists(name)
    THEN Issued("switch", name, FALSE) /\ UNCHANGED << dvFiles, dvLegacy, configFile >>
    ELSE /\ Issued("switch", name, TRUE)
         /\ set_current_dive(Some(name))
         /\ UNCHANGED << dvFiles, dvLegacy >>

\* dive.rs 306-327
DiveDelete(name) ==
    IF ~PrepExists(name)
    THEN Issued("delete", name, FALSE) /\ UNCHANGED << dvFiles, dvLegacy, configFile >>
    ELSE /\ Issued("delete", name, TRUE)
         /\ dvFiles' = [dvFiles EXCEPT ![dive_prep_path(name)] = None]
         /\ IF current_dive = Some(name) THEN set_current_dive(None) ELSE UNCHANGED configFile
         /\ UNCHANGED dvLegacy

\* dive.rs 330-366
DiveSave(name) ==
    IF ~is_valid_prep_name(name) \/ ~IsSome(dvLegacy) \/ PrepExists(name)
    THEN Issued("save", name, FALSE) /\ UNCHANGED << dvFiles, dvLegacy, configFile >>
    ELSE /\ Issued("save", name, TRUE)
         /\ dvFiles' = [dvFiles EXCEPT ![dive_prep_path(name)] = dvLegacy]
         /\ set_current_dive(Some(name))
         /\ UNCHANGED dvLegacy

\* dive.rs 425-511
DiveLoad(save_as, fetched) ==
    LET name == IF IsSome(save_as) THEN Unwrap(save_as) ELSE << >>
    IN  IF ~IsOk(fetched) \/ (IsSome(save_as) /\ ~is_valid_prep_name(name))
        THEN Issued("load", name, FALSE) /\ UNCHANGED << dvFiles, dvLegacy, configFile >>
        ELSE IF IsSome(save_as)
        THEN /\ Issued("load", name, TRUE)
             /\ dvFiles' = [dvFiles EXCEPT ![dive_prep_path(name)] = Some(fetched[2])]
             /\ set_current_dive(Some(name))
             /\ UNCHANGED dvLegacy
        ELSE /\ Issued("load", name, TRUE)
             /\ dvLegacy' = Some(fetched[2])
             /\ UNCHANGED << dvFiles, configFile >>

\* dive.rs 514-540
DiveClear ==
    /\ Issued("clear", << >>, TRUE)
    /\ IF IsSome(current_dive) THEN set_current_dive(None) ELSE UNCHANGED configFile
    /\ dvLegacy' = None
    /\ UNCHANGED dvFiles

\* ------------------------------------------------------- claims of part Q
CurrentSetting == IF IsSome(configFile) THEN Unwrap(configFile).dive.current ELSE None

\* C39: after any sequence of dive commands, a current prep named by the
\* configuration has its file; new and save on a name that exists fail and
\* leave the files and the current setting as they were; after a delete of
\* the current prep the configuration names no current prep.
C39_CurrentPrepExists ==
    /\ IsSome(CurrentSetting) => IsSome(dvFiles[dive_prep_path(Unwrap(CurrentSetting))])
    /\ (dvLast.cmd \in {"new", "save"} /\ IsSome(dvLast.files[dive_prep_path(dvLast.name)])) =>
          (~dvLast.ok /\ dvFiles = dvLast.files /\ CurrentSetting = dvLast.current)
    /\ ( /\ dvLast.cmd = "delete" /\ dvLast.ok /\ IsSome(dvLast.current)
         /\ dive_prep_path(Unwrap(dvLast.current)) = dive_prep_path(dvLast.name) ) =>
          CurrentSetting = None

\* ------------------------------------------------------- specifications
\* everything but the extract runs and the configuration file
varsNotAM == << varsB, varsC, varsD, varsE, varsF, varsG, varsH, varsI, varsJ, varsK, varsL, varsN, varsO, varsP, varsQ >>
\* everything but the distill run
varsNotDN == << varsA, varsB, varsC, varsE, varsF, varsG, varsH, varsI, varsJ, varsK, varsL, varsM, varsO, varsP, varsQ >>
\* everything but the file system and the compress run
varsNotBO == << varsA, varsC, varsD, varsE, varsF, varsG, varsH, varsI, varsJ, varsK, varsL, varsM, varsN, varsP, varsQ >>
\* everything but the extract runs
varsNotA == << varsB, varsC, varsD, varsE, varsF, varsG, varsH, varsI, varsJ, varsK, varsL, varsM, varsN, varsO, varsP, varsQ >>
\* everything but the growing transcript
varsNotP == << varsA, varsB, varsC, varsD, varsE, varsF, varsG, varsH, varsI, varsJ, varsK, varsL, varsM, varsN, varsO, varsQ >>
\* everything but the dive commands and the configuration file
varsNotQ == << varsA, varsB, varsC, varsD, varsE, varsF, varsG, varsH, varsI, varsJ, varsK, varsL, pausedNew, refused, resumeRun, varsN, varsO, varsP >>
vars == << varsA, varsB, varsC, varsD, varsE, varsF, varsG, varsH, varsI, varsJ, varsK, varsL, varsM, varsN, varsO, varsP, varsQ >>
IdleD == InitDWith(<< >>, FALSE, EmptyCache)
Init == InitA /\ InitB /\ InitCWith(NoEnv) /\ IdleD /\ IdleE /\ IdleF /\ IdleG /\ IdleH /\ IdleI /\ IdleJ /\ IdleK /\ IdleL /\ IdleM /\ IdleN /\ IdleO /\ IdleP /\ IdleQ

\* a sequence of extract runs of one session, interleaved with appends
Next ==
    \/ AppendRecord /\ UNCHANGED << varsB, varsC, varsD, varsE, varsF, varsG, varsH, varsI, varsJ, varsK, varsL, varsM, varsN, varsO, varsP, varsQ >>
    \/ \E p \in SequenceProcs, sid \in SequenceSessions : Begin(p, sid) /\ UNCHANGED << varsB, varsC, varsD, varsE, varsF, varsG, varsH, varsI, varsJ, varsK, varsL, varsM, varsN, varsO, varsP, varsQ >>
    \/ \E p \in Procs : ReadState(p) /\ UNCHANGED << varsB, varsC, varsD, varsE, varsF, varsG, varsH, varsI, varsJ, varsK, varsL, varsM, varsN, varsO, varsP, varsQ >>
    \/ \E p \in Procs : ReadCheckpoint(p) /\ UNCHANGED << varsB, varsC, varsD, varsE, varsF, varsG, varsH, varsI, varsJ, varsK, varsL, varsM, varsN, varsO, varsP, varsQ >>
    \/ \E p \in Procs : ReadTranscript(p) /\ UNCHANGED << varsB, varsC, varsD, varsE, varsF, varsG, varsH, varsI, varsJ, varsK, varsL, varsM, varsN, varsO, varsP, varsQ >>
    \/ \E p \in Procs : Oracle(p) /\ UNCHANGED << varsB, varsC, varsD, varsE, varsF, varsG, varsH, varsI, varsJ, varsK, varsL, varsM, varsN, varsO, varsP, varsQ >>
    \/ \E p \in Procs : WriteState(p) /\ UNCHANGED << varsB, varsC, varsD, varsE, varsF, varsG, varsH, varsI, varsJ, varsK, varsL, varsM, varsN, varsO, varsP, varsQ >>
    \/ \E p \in Procs : WriteCheckpoint(p) /\ UNCHANGED << varsB, varsC, varsD, varsE, varsF, varsG, varsH, varsI, varsJ, varsK, varsL, varsM, varsN, varsO, varsP, varsQ >>
    \/ \E p \in Procs : Exit(p) /\ UNCHANGED << varsB, varsC, varsD, varsE, varsF, varsG, varsH, varsI, varsJ, varsK, varsL, varsM, varsN, varsO, varsP, varsQ >>
Spec == Init /\ [][Next]_vars

\* the same runs, started shortly before the hour, over checkpoint files that
\* are missing, unparsable, or hold an earlier instant
InitCheckpoint ==
    /\ \E t \in {1, 59}, c \in {None, Some(Garbage), Some(ToRfc3339(0))} : InitAWith(t, c)
    /\ InitB /\ InitCWith(NoEnv) /\ IdleD /\ IdleE /\ IdleF /\ IdleG /\ IdleH /\ IdleI /\ IdleJ /\ IdleK /\ IdleL /\ IdleM /\ IdleN /\ IdleO /\ IdleP /\ IdleQ
SpecCheckpoint == InitCheckpoint /\ [][Next]_vars

\* two extract processes, one per session, running concurrently
ProcSession(p) == IF p = "p1" THEN Some("s1") ELSE Some("s2")
NextConcurrent ==
    \/ AppendRecord /\ UNCHANGED << varsB, varsC, varsD, varsE, varsF, varsG, varsH, varsI, varsJ, varsK, varsL, varsM, varsN, varsO, varsP, varsQ >>
    \/ \E p \in Procs : StartRun(p, ProcSession(p)) /\ UNCHANGED << varsB, varsC, varsD, varsE, varsF, varsG, varsH, varsI, varsJ, varsK, varsL, varsM, varsN, varsO, varsP, varsQ >>
    \/ \E p \in Procs : ReadState(p) /\ UNCHANGED << varsB, varsC, varsD, varsE, varsF, varsG, varsH, varsI, varsJ, varsK, varsL, varsM, varsN, varsO, varsP, varsQ >>
    \/ \E p \in Procs : ReadCheckpoint(p) /\ UNCHANGED << varsB, varsC, varsD, varsE, varsF, varsG, varsH, varsI, varsJ, varsK, varsL, varsM, varsN, varsO, varsP, varsQ >>
    \/ \E p \in Procs : ReadTranscript(p) /\ UNCHANGED << varsB, varsC, varsD, varsE, varsF, varsG, varsH, varsI, varsJ, varsK, varsL, varsM, varsN, varsO, varsP, varsQ >>
    \/ \E p \in Procs : Oracle(p) /\ UNCHANGED << varsB, varsC, varsD, varsE, varsF, varsG, varsH, varsI, varsJ, varsK, varsL, varsM, varsN, varsO, varsP, varsQ >>
    \/ \E p \in Procs : WriteState(p) /\ UNCHANGED << varsB, varsC, varsD, varsE, varsF, varsG, varsH, varsI, varsJ, varsK, varsL, varsM, varsN, varsO, varsP, varsQ >>
    \/ \E p \in Procs : WriteCheckpoint(p) /\ UNCHANGED << varsB, varsC, varsD, varsE, varsF, varsG, varsH, varsI, varsJ, varsK, varsL, varsM, varsN, varsO, varsP, varsQ >>
    \/ \E p \in Procs : Exit(p) /\ UNCHANGED << varsB, varsC, varsD, varsE, varsF, varsG, varsH, varsI, varsJ, varsK, varsL, varsM, varsN, varsO, varsP, varsQ >>
SpecConcurrent == Init /\ [][NextConcurrent]_vars

\* concurrent writers of the knowledge document, no crash
NextWriters ==
    \/ \E w \in Writers : StartExtractWrite(w) /\ UNCHANGED << varsA, varsC, varsD, varsE, varsF, varsG, varsH, varsI, varsJ, varsK, varsL, varsM, varsN, varsO, varsP, varsQ >>
    \/ \E w \in Writers : StartCompressWrite(w) /\ UNCHANGED << varsA, varsC, varsD, varsE, varsF, varsG, varsH, varsI, varsJ, varsK, varsL, varsM, varsN, varsO, varsP, varsQ >>
    \/ \E w \in Writers : FsOpen(w) /\ UNCHANGED << varsA, varsC, varsD, varsE, varsF, varsG, varsH, varsI, varsJ, varsK, varsL, varsM, varsN, varsO, varsP, varsQ >>
    \/ \E w \in Writers : FsWriteChunk(w) /\ UNCHANGED << varsA, varsC, varsD, varsE, varsF, varsG, varsH, varsI, varsJ, varsK, varsL, varsM, varsN, varsO, varsP, varsQ >>
    \/ \E w \in Writers : FsRename(w) /\ UNCHANGED << varsA, varsC, varsD, varsE, varsF, varsG, varsH, varsI, varsJ, varsK, varsL, varsM, varsN, varsO, varsP, varsQ >>
SpecWriters == Init /\ [][NextWriters]_vars

\* one writer at a time, each may crash at any step
NextCrash ==
    \/ \E w \in Writers : NoneActive /\ StartExtractWrite(w) /\ UNCHANGED << varsA, varsC, varsD, varsE, varsF, varsG, varsH, varsI, varsJ, varsK, varsL, varsM, varsN, varsO, varsP, varsQ >>
    \/ \E w \in Writers : NoneActive /\ StartCompressWrite(w) /\ UNCHANGED << varsA, varsC, varsD, varsE, varsF, varsG, varsH, varsI, varsJ, varsK, varsL, varsM, varsN, varsO, varsP, varsQ >>
    \/ \E w \in Writers, f \in CategorizedFiles : NoneActive /\ StartCategorizedWrite(w, f) /\ UNCHANGED << varsA, varsC, varsD, varsE, varsF, varsG, varsH, varsI, varsJ, varsK, varsL, varsM, varsN, varsO, varsP, varsQ >>
    \/ \E w \in Writers : NoneActive /\ StartRawWrite(w) /\ UNCHANGED << varsA, varsC, varsD, varsE, varsF, varsG, varsH, varsI, varsJ, varsK, varsL, varsM, varsN, varsO, varsP, varsQ >>
    \/ \E w \in Writers : FsOpen(w) /\ UNCHANGED << varsA, varsC, varsD, varsE, varsF, varsG, varsH, varsI, varsJ, varsK, varsL, varsM, varsN, varsO, varsP, varsQ >>
    \/ \E w \in Writers : FsWriteChunk(w) /\ UNCHANGED << varsA, varsC, varsD, varsE, varsF, varsG, varsH, varsI, varsJ, varsK, varsL, varsM, varsN, varsO, varsP, varsQ >>
    \/ \E w \in Writers : FsRename(w) /\ UNCHANGED << varsA, varsC, varsD, varsE, varsF, varsG, varsH, varsI, varsJ, varsK, varsL, varsM, varsN, varsO, varsP, varsQ >>
    \/ \E w \in Writers : Crash(w) /\ UNCHANGED << varsA, varsC, varsD, varsE, varsF, varsG, varsH, varsI, varsJ, varsK, varsL, varsM, varsN, varsO, varsP, varsQ >>
SpecCrash == Init /\ [][NextCrash]_vars

\* one wm process started with any environment, running an oracle command
InitEnv == InitA /\ InitB /\ InitC /\ IdleD /\ IdleE /\ IdleF /\ IdleG /\ IdleH /\ IdleI /\ IdleJ /\ IdleK /\ IdleL /\ IdleM /\ IdleN /\ IdleO /\ IdleP /\ IdleQ
NextEnv ==
    \/ MainDisabled /\ UNCHANGED << varsA, varsB, varsD, varsE, varsF, varsG, varsH, varsI, varsJ, varsK, varsL, varsM, varsN, varsO, varsP, varsQ >>
    \/ MainDispatch /\ UNCHANGED << varsA, varsB, varsD, varsE, varsF, varsG, varsH, varsI, varsJ, varsK, varsL, varsM, varsN, varsO, varsP, varsQ >>
    \/ CallClaude /\ UNCHANGED << varsA, varsB, varsD, varsE, varsF, varsG, varsH, varsI, varsJ, varsK, varsL, varsM, varsN, varsO, varsP, varsQ >>
    \/ SpawnClaude /\ UNCHANGED << varsA, varsB, varsD, varsE, varsF, varsG, varsH, varsI, varsJ, varsK, varsL, varsM, varsN, varsO, varsP, varsQ >>
    \/ NestedStart /\ UNCHANGED << varsA, varsB, varsD, varsE, varsF, varsG, varsH, varsI, varsJ, varsK, varsL, varsM, varsN, varsO, varsP, varsQ >>
    \/ WaitClaude /\ UNCHANGED << varsA, varsB, varsD, varsE, varsF, varsG, varsH, varsI, varsJ, varsK, varsL, varsM, varsN, varsO, varsP, varsQ >>
    \/ DropGuards /\ UNCHANGED << varsA, varsB, varsD, varsE, varsF, varsG, varsH, varsI, varsJ, varsK, varsL, varsM, varsN, varsO, varsP, varsQ >>
    \/ CallCompression /\ UNCHANGED << varsA, varsB, varsD, varsE, varsF, varsG, varsH, varsI, varsJ, varsK, varsL, varsM, varsN, varsO, varsP, varsQ >>
    \/ SpawnCompression /\ UNCHANGED << varsA, varsB, varsD, varsE, varsF, varsG, varsH, varsI, varsJ, varsK, varsL, varsM, varsN, varsO, varsP, varsQ >>
    \/ WaitCompression /\ UNCHANGED << varsA, varsB, varsD, varsE, varsF, varsG, varsH, varsI, varsJ, varsK, varsL, varsM, varsN, varsO, varsP, varsQ >>
    \/ MainExit /\ UNCHANGED << varsA, varsB, varsD, varsE, varsF, varsG, varsH, varsI, varsJ, varsK, varsL, varsM, varsN, varsO, varsP, varsQ >>
SpecEnv == InitEnv /\ [][NextEnv]_vars

\* one run of distill pass 1 over any list, any cache, any failing subset
InitPass1 == InitA /\ InitB /\ InitCWith(NoEnv) /\ InitD /\ IdleE /\ IdleF /\ IdleG /\ IdleH /\ IdleI /\ IdleJ /\ IdleK /\ IdleL /\ IdleM /\ IdleN /\ IdleO /\ IdleP /\ IdleQ
NextPass1 ==
    \/ Pass1Cached /\ UNCHANGED << varsA, varsB, varsC, varsE, varsF, varsG, varsH, varsI, varsJ, varsK, varsL, varsM, varsN, varsO, varsP, varsQ >>
    \/ Pass1Extracted /\ UNCHANGED << varsA, varsB, varsC, varsE, varsF, varsG, varsH, varsI, varsJ, varsK, varsL, varsM, varsN, varsO, varsP, varsQ >>
    \/ Pass1Failed /\ UNCHANGED << varsA, varsB, varsC, varsE, varsF, varsG, varsH, varsI, varsJ, varsK, varsL, varsM, varsN, varsO, varsP, varsQ >>
    \/ SaveExtractionCache /\ UNCHANGED << varsA, varsB, varsC, varsE, varsF, varsG, varsH, varsI, varsJ, varsK, varsL, varsM, varsN, varsO, varsP, varsQ >>
SpecPass1 == InitPass1 /\ [][NextPass1]_vars

\* a non-forced first run of pass 1 and a second run over the same sessions
NextPass2 ==
    \/ Pass1Cached /\ UNCHANGED << varsA, varsB, varsC, varsE, varsF, varsG, varsH, varsI, varsJ, varsK, varsL, varsM, varsN, varsO, varsP, varsQ >>
    \/ Pass1Extracted /\ UNCHANGED << varsA, varsB, varsC, varsE, varsF, varsG, varsH, varsI, varsJ, varsK, varsL, varsM, varsN, varsO, varsP, varsQ >>
    \/ Pass1Failed /\ UNCHANGED << varsA, varsB, varsC, varsE, varsF, varsG, varsH, varsI, varsJ, varsK, varsL, varsM, varsN, varsO, varsP, varsQ >>
    \/ SaveExtractionCache /\ UNCHANGED << varsA, varsB, varsC, varsE, varsF, varsG, varsH, varsI, varsJ, varsK, varsL, varsM, varsN, varsO, varsP, varsQ >>
    \/ StartSecondPass /\ UNCHANGED << varsA, varsB, varsC, varsE, varsF, varsG, varsH, varsI, varsJ, varsK, varsL, varsM, varsN, varsO, varsP, varsQ >>
InitPass2 == InitPass1 /\ ~force
SpecPass2 == InitPass2 /\ [][NextPass2]_vars

\* the two selections over any transcript, cursor and session filter
InitSelect == InitA /\ InitB /\ InitCWith(NoEnv) /\ IdleD /\ InitE /\ IdleF /\ IdleG /\ IdleH /\ IdleI /\ IdleJ /\ IdleK /\ IdleL /\ IdleM /\ IdleN /\ IdleO /\ IdleP /\ IdleQ
NextSelect ==
    \/ SelectCarryover /\ UNCHANGED << varsA, varsB, varsC, varsD, varsF, varsG, varsH, varsI, varsJ, varsK, varsL, varsM, varsN, varsO, varsP, varsQ >>
    \/ SelectSince /\ UNCHANGED << varsA, varsB, varsC, varsD, varsF, varsG, varsH, varsI, varsJ, varsK, varsL, varsM, varsN, varsO, varsP, varsQ >>
SpecSelect == InitSelect /\ [][NextSelect]_vars

\* one of the two readers over any file of up to MaxLines lines
InitParse == InitA /\ InitB /\ InitCWith(NoEnv) /\ IdleD /\ IdleE /\ InitF /\ IdleG /\ IdleH /\ IdleI /\ IdleJ /\ IdleK /\ IdleL /\ IdleM /\ IdleN /\ IdleO /\ IdleP /\ IdleQ
NextParse ==
    \/ ParseOpen /\ UNCHANGED << varsA, varsB, varsC, varsD, varsE, varsG, varsH, varsI, varsJ, varsK, varsL, varsM, varsN, varsO, varsP, varsQ >>
    \/ ParseLine /\ UNCHANGED << varsA, varsB, varsC, varsD, varsE, varsG, varsH, varsI, varsJ, varsK, varsL, varsM, varsN, varsO, varsP, varsQ >>
    \/ ParseEnd /\ UNCHANGED << varsA, varsB, varsC, varsD, varsE, varsG, varsH, varsI, varsJ, varsK, varsL, varsM, varsN, varsO, varsP, varsQ >>
SpecParse == InitParse /\ [][NextParse]_vars

\* parse_marker_response over any response text and marker name
InitMarker == InitA /\ InitB /\ InitCWith(NoEnv) /\ IdleD /\ IdleE /\ IdleF /\ InitG /\ IdleH /\ IdleI /\ IdleJ /\ IdleK /\ IdleL /\ IdleM /\ IdleN /\ IdleO /\ IdleP /\ IdleQ
NextMarker ==
    \/ ParseMarker /\ UNCHANGED << varsA, varsB, varsC, varsD, varsE, varsF, varsH, varsI, varsJ, varsK, varsL, varsM, varsN, varsO, varsP, varsQ >>
SpecMarker == InitMarker /\ [][NextMarker]_vars
\* a hook invocation in an initialized project, in any world
InitHook == InitA /\ InitB /\ InitCWith(NoEnv) /\ IdleD /\ IdleE /\ IdleF /\ IdleG /\ InitH /\ IdleI /\ IdleJ /\ IdleK /\ IdleL /\ IdleM /\ IdleN /\ IdleO /\ IdleP /\ IdleQ
NextHook ==
    \/ HookDispatch /\ UNCHANGED << varsA, varsB, varsC, varsD, varsE, varsF, varsG, varsI, varsJ, varsK, varsL, varsM, varsN, varsO, varsP, varsQ >>
    \/ CompileRunHook /\ UNCHANGED << varsA, varsB, varsC, varsD, varsE, varsF, varsG, varsI, varsJ, varsK, varsL, varsM, varsN, varsO, varsP, varsQ >>
    \/ ExtractRunHook /\ UNCHANGED << varsA, varsB, varsC, varsD, varsE, varsF, varsG, varsI, varsJ, varsK, varsL, varsM, varsN, varsO, varsP, varsQ >>
    \/ ExtractFromTranscript /\ UNCHANGED << varsA, varsB, varsC, varsD, varsE, varsF, varsG, varsI, varsJ, varsK, varsL, varsM, varsN, varsO, varsP, varsQ >>
    \/ HookExit /\ UNCHANGED << varsA, varsB, varsC, varsD, varsE, varsF, varsG, varsI, varsJ, varsK, varsL, varsM, varsN, varsO, varsP, varsQ >>
SpecHook == InitHook /\ [][NextHook]_vars
\* one discovery over any directory tree
InitDiscover == InitA /\ InitB /\ InitCWith(NoEnv) /\ IdleD /\ IdleE /\ IdleF /\ IdleG /\ IdleH /\ InitI /\ IdleJ /\ IdleK /\ IdleL /\ IdleM /\ IdleN /\ IdleO /\ IdleP /\ IdleQ
NextDiscover ==
    \/ DiscoverClaude /\ UNCHANGED << varsA, varsB, varsC, varsD, varsE, varsF, varsG, varsH, varsJ, varsK, varsL, varsM, varsN, varsO, varsP, varsQ >>
    \/ DiscoverCodex /\ UNCHANGED << varsA, varsB, varsC, varsD, varsE, varsF, varsG, varsH, varsJ, varsK, varsL, varsM, varsN, varsO, varsP, varsQ >>
    \/ DiscoverByProjectFilter /\ UNCHANGED << varsA, varsB, varsC, varsD, varsE, varsF, varsG, varsH, varsJ, varsK, varsL, varsM, varsN, varsO, varsP, varsQ >>
SpecDiscover == InitDiscover /\ [][NextDiscover]_vars
\* the rendering of one tool result or tool output
InitTruncate == InitA /\ InitB /\ InitCWith(NoEnv) /\ IdleD /\ IdleE /\ IdleF /\ IdleG /\ IdleH /\ IdleI /\ InitJ /\ IdleK /\ IdleL /\ IdleM /\ IdleN /\ IdleO /\ IdleP /\ IdleQ
NextTruncate ==
    \/ FormatCodexOutput /\ UNCHANGED << varsA, varsB, varsC, varsD, varsE, varsF, varsG, varsH, varsI, varsK, varsL, varsM, varsN, varsO, varsP, varsQ >>
    \/ FormatClaudeToolResult /\ UNCHANGED << varsA, varsB, varsC, varsD, varsE, varsF, varsG, varsH, varsI, varsK, varsL, varsM, varsN, varsO, varsP, varsQ >>
SpecTruncate == InitTruncate /\ [][NextTruncate]_vars
\* one text stripped once and once more
InitStrip == InitA /\ InitB /\ InitCWith(NoEnv) /\ IdleD /\ IdleE /\ IdleF /\ IdleG /\ IdleH /\ IdleI /\ IdleJ /\ InitK /\ IdleL /\ IdleM /\ IdleN /\ IdleO /\ IdleP /\ IdleQ
NextStrip ==
    \/ StripOnce /\ UNCHANGED << varsA, varsB, varsC, varsD, varsE, varsF, varsG, varsH, varsI, varsJ, varsL, varsM, varsN, varsO, varsP, varsQ >>
    \/ StripAgain /\ UNCHANGED << varsA, varsB, varsC, varsD, varsE, varsF, varsG, varsH, varsI, varsJ, varsL, varsM, varsN, varsO, varsP, varsQ >>
SpecStrip == InitStrip /\ [][NextStrip]_vars
\* one transcript read, selected from and rendered
InitRecords == InitA /\ InitB /\ InitCWith(NoEnv) /\ IdleD /\ IdleE /\ IdleF /\ IdleG /\ IdleH /\ IdleI /\ IdleJ /\ IdleK /\ InitL /\ IdleM /\ IdleN /\ IdleO /\ IdleP /\ IdleQ
NextRecords ==
    \/ ReadRecords /\ UNCHANGED << varsA, varsB, varsC, varsD, varsE, varsF, varsG, varsH, varsI, varsJ, varsK, varsM, varsN, varsO, varsP, varsQ >>
    \/ SelectRecords /\ UNCHANGED << varsA, varsB, varsC, varsD, varsE, varsF, varsG, varsH, varsI, varsJ, varsK, varsM, varsN, varsO, varsP, varsQ >>
    \/ RenderRecords /\ UNCHANGED << varsA, varsB, varsC, varsD, varsE, varsF, varsG, varsH, varsI, varsJ, varsK, varsM, varsN, varsO, varsP, varsQ >>
SpecRecords == InitRecords /\ [][NextRecords]_vars
\* extract runs of session s1, interleaved with appends and with pause and
\* resume commands
InitPause == InitA /\ InitB /\ InitCWith(NoEnv) /\ IdleD /\ IdleE /\ IdleF /\ IdleG /\ IdleH /\ IdleI /\ IdleJ /\ IdleK /\ IdleL /\ InitM /\ IdleN /\ IdleO /\ IdleP /\ IdleQ
NextPause ==
    \/ AppendMaybePaused /\ UNCHANGED varsNotAM
    \/ \E operation \in PauseOperands : run_pause(operation) /\ UNCHANGED varsNotAM
    \/ \E operation \in PauseOperands : run_resume(operation) /\ UNCHANGED varsNotAM
    \/ \E entry \in ExtractEntries : ExtractPaused(entry) /\ UNCHANGED varsNotAM
    \/ \E entry \in ExtractEntries, p \in SequenceProcs : ExtractEnabled(entry, p, Some("s1")) /\ UNCHANGED varsNotAM
    \/ \E p \in Procs : ReadState(p) /\ UNCHANGED << varsB, varsC, varsD, varsE, varsF, varsG, varsH, varsI, varsJ, varsK, varsL, varsM, varsN, varsO, varsP, varsQ >>
    \/ \E p \in Procs : ReadCheckpoint(p) /\ UNCHANGED << varsB, varsC, varsD, varsE, varsF, varsG, varsH, varsI, varsJ, varsK, varsL, varsM, varsN, varsO, varsP, varsQ >>
    \/ \E p \in Procs : ReadTranscript(p) /\ UNCHANGED << varsB, varsC, varsD, varsE, varsF, varsG, varsH, varsI, varsJ, varsK, varsL, varsM, varsN, varsO, varsP, varsQ >>
    \/ \E p \in Procs : Oracle(p) /\ UNCHANGED << varsB, varsC, varsD, varsE, varsF, varsG, varsH, varsI, varsJ, varsK, varsL, varsM, varsN, varsO, varsP, varsQ >>
    \/ \E p \in Procs : WriteState(p) /\ UNCHANGED << varsB, varsC, varsD, varsE, varsF, varsG, varsH, varsI, varsJ, varsK, varsL, varsM, varsN, varsO, varsP, varsQ >>
    \/ \E p \in Procs : WriteCheckpoint(p) /\ UNCHANGED << varsB, varsC, varsD, varsE, varsF, varsG, varsH, varsI, varsJ, varsK, varsL, varsM, varsN, varsO, varsP, varsQ >>
    \/ \E p \in Procs : Exit(p) /\ UNCHANGED << varsB, varsC, varsD, varsE, varsF, varsG, varsH, varsI, varsJ, varsK, varsL, varsM, varsN, varsO, varsP, varsQ >>
SpecPause == InitPause /\ [][NextPause]_vars
\* one distill run: dry or not, forced or not, over any cache
InitDistill ==
    /\ InitA /\ InitB /\ InitCWith(NoEnv) /\ IdleE /\ IdleF /\ IdleG /\ IdleH /\ IdleI /\ IdleJ /\ IdleK /\ IdleL /\ IdleM
    /\ \E l \in SessionLists, f \in BOOLEAN, c \in DistillCaches : InitDWith(l, f, c)
    /\ InitN /\ IdleO /\ IdleP /\ IdleQ
NextDistill ==
    \/ DistillNoSessions /\ UNCHANGED varsNotDN
    \/ DistillDryRun /\ UNCHANGED varsNotDN
    \/ DistillBeginPass1 /\ UNCHANGED varsNotDN
    \/ DistillPass1Cached /\ UNCHANGED varsNotDN
    \/ DistillPass1Extracted /\ UNCHANGED varsNotDN
    \/ DistillPass1Failed /\ UNCHANGED varsNotDN
    \/ DistillPass1Returns /\ UNCHANGED varsNotDN
    \/ DistillAccumulate /\ UNCHANGED varsNotDN
    \/ DistillPass2 /\ UNCHANGED varsNotDN
SpecDistill == InitDistill /\ [][NextDistill]_vars
\* the distill run goes on while it can
SpecDistillFair == SpecDistill /\ WF_vars(NextDistill)
\* one compress run over any state.md and backup, with any oracle output
InitCompress ==
    /\ InitA /\ InitCWith(NoEnv) /\ IdleD /\ IdleE /\ IdleF /\ IdleG /\ IdleH /\ IdleI /\ IdleJ /\ IdleK /\ IdleL /\ IdleM /\ IdleN
    /\ InitO /\ IdleP /\ IdleQ
NextCompress ==
    \/ CompressRead /\ UNCHANGED varsNotBO
    \/ CompressOracle /\ UNCHANGED varsNotBO
    \/ CompressWriteStep /\ UNCHANGED varsNotBO
SpecCompress == InitCompress /\ [][NextCompress]_vars
\* two extract processes of the same session, running concurrently
NextOverlap ==
    \/ AppendRecord /\ UNCHANGED varsNotA
    \/ \E p \in Procs : StartRun(p, Some("s1")) /\ UNCHANGED varsNotA
    \/ \E p \in Procs : ReadState(p) /\ UNCHANGED varsNotA
    \/ \E p \in Procs : ReadCheckpoint(p) /\ UNCHANGED varsNotA
    \/ \E p \in Procs : ReadTranscript(p) /\ UNCHANGED varsNotA
    \/ \E p \in Procs : Oracle(p) /\ UNCHANGED varsNotA
    \/ \E p \in Procs : WriteState(p) /\ UNCHANGED varsNotA
    \/ \E p \in Procs : WriteCheckpoint(p) /\ UNCHANGED varsNotA
    \/ \E p \in Procs : Exit(p) /\ UNCHANGED varsNotA
SpecOverlap == Init /\ [][NextOverlap]_vars
\* distill passes over one transcript that keeps growing
InitGrow ==
    /\ InitA /\ InitB /\ InitCWith(NoEnv) /\ IdleD /\ IdleE /\ IdleF /\ IdleG /\ IdleH /\ IdleI /\ IdleJ /\ IdleK /\ IdleL /\ IdleM /\ IdleN /\ IdleO
    /\ InitP /\ IdleQ
NextGrow ==
    \/ TranscriptGrows /\ UNCHANGED varsNotP
    \/ GrowDiscover /\ UNCHANGED varsNotP
    \/ GrowCached /\ UNCHANGED varsNotP
    \/ GrowExtract /\ UNCHANGED varsNotP
    \/ GrowRead /\ UNCHANGED varsNotP
    \/ GrowExtracted /\ UNCHANGED varsNotP
    \/ GrowFailed /\ UNCHANGED varsNotP
SpecGrow == InitGrow /\ [][NextGrow]_vars
\* any sequence of dive commands on an initialized project
InitDive ==
    /\ InitA /\ InitB /\ InitCWith(NoEnv) /\ IdleD /\ IdleE /\ IdleF /\ IdleG /\ IdleH /\ IdleI /\ IdleJ /\ IdleK /\ IdleL /\ IdleM /\ IdleN /\ IdleO /\ IdleP
    /\ InitQ
NextDive ==
    \/ \E name \in PrepNames, content \in {None, Some("given")} : DiveNew(name, content) /\ UNCHANGED varsNotQ
    \/ \E name \in PrepNames : DiveSwitch(name) /\ UNCHANGED varsNotQ
    \/ \E name \in PrepNames : DiveDelete(name) /\ UNCHANGED varsNotQ
    \/ \E name \in PrepNames : DiveSave(name) /\ UNCHANGED varsNotQ
    \/ \E save_as \in {None} \cup {Some(n) : n \in PrepNames}, fetched \in FetchOutcomes :
          DiveLoad(save_as, fetched) /\ UNCHANGED varsNotQ
    \/ DiveClear /\ UNCHANGED varsNotQ
SpecDive == InitDive /\ [][NextDive]_vars
====
